---------------------------- MODULE Spec2Model ----------------------------
(***************************************************************************)
(* Azoteq IQS550/572/525 touch controller driver                           *)
(* (drivers/input/touchscreen/iqs5xx.c): bus transport, bootloader         *)
(* protocol, firmware parser, flash programmer and device bring-up,        *)
(* together with the touch interrupt handler and the power-state hooks.    *)
(*                                                                         *)
(* Three threads are modelled: "fw" (probe, then fw_file_store requests),  *)
(* "irq" (the threaded interrupt handler iqs5xx_irq) and "pm" (callers of  *)
(* iqs5xx_set_state).  The device and the bus are the environment: every   *)
(* transfer may succeed, come up short or fail, and every byte read from   *)
(* the device is drawn from a small set.                                   *)
(***************************************************************************)
EXTENDS Integers, Sequences, FiniteSets, TLC

(***************************************************************************)
(* Program constants (iqs5xx.c:31-96)                                      *)
(***************************************************************************)
IQS5XX_FW_FILE_LEN == 64
IQS5XX_NUM_RETRIES == 10
IQS5XX_NUM_POINTS == 256
IQS5XX_WR_BYTES_MAX == 2
IQS5XX_PROD_NUM_IQS550 == 40
IQS5XX_PROD_NUM_IQS572 == 58
IQS5XX_PROD_NUM_IQS525 == 52
IQS5XX_PROJ_NUM_A000 == 0
IQS5XX_PROJ_NUM_B000 == 15
IQS5XX_MAJOR_VER_MIN == 2
IQS5XX_RESUME == 0
IQS5XX_SUSPEND == 1
IQS5XX_FLIP_X == 1
IQS5XX_FLIP_Y == 2
IQS5XX_SWITCH_XY_AXIS == 4
IQS5XX_SW_INPUT_EVENT == 16
IQS5XX_SETUP_COMPLETE == 64
IQS5XX_EVENT_MODE == 1
IQS5XX_TP_EVENT == 4
\* register addresses
IQS5XX_PROD_NUM == 0
IQS5XX_ABS_X == 22
IQS5XX_SYS_CTRL1 == 1074
IQS5XX_SYS_CFG0 == 1422
IQS5XX_SYS_CFG1 == 1423
IQS5XX_TOTAL_RX == 1597
IQS5XX_TOTAL_TX == 1598
IQS5XX_XY_CFG0 == 1641
IQS5XX_X_RES == 1646
IQS5XX_Y_RES == 1648
IQS5XX_END_COMM == 61166
IQS5XX_CHKSM == 33728
IQS5XX_APP == 33792
IQS5XX_CSTM == 48640
IQS5XX_PMAP_END == 49151
IQS5XX_CHKSM_LEN == IQS5XX_APP - IQS5XX_CHKSM
IQS5XX_APP_LEN == IQS5XX_CSTM - IQS5XX_APP
IQS5XX_CSTM_LEN == IQS5XX_PMAP_END + 1 - IQS5XX_CSTM
IQS5XX_PMAP_LEN == IQS5XX_PMAP_END + 1 - IQS5XX_CHKSM
IQS5XX_REC_HDR_LEN == 4
IQS5XX_REC_LEN_MAX == 255
IQS5XX_REC_TYPE_DATA == 0
IQS5XX_REC_TYPE_EOF == 1
IQS5XX_BL_BLK_LEN_MAX == 64
IQS5XX_BL_ID == 512
IQS5XX_BL_STATUS_RESET == 0
IQS5XX_BL_STATUS_AVAIL == 165
IQS5XX_BL_STATUS_NONE == 238
IQS5XX_BL_CRC_PASS == 0
IQS5XX_BL_CRC_FAIL == 1
IQS5XX_BL_ATTEMPTS == 3
\* sizeof(struct iqs5xx_ihex_rec): start + len[2] + addr[4] + type[2] + data[2]
SizeofRec == 11
\* sizeof(struct iqs5xx_dev_id_info)
SizeofDevIdInfo == 7

\* errno values; a function returns 0 or the negated errno
EPERM == 1
ENOENT == 2
EIO == 5
ENXIO == 6
ENOMEM == 12
EINVAL == 22
ENAMETOOLONG == 36

U8 == 256
U16 == 65536

(***************************************************************************)
(* Bounds of the model                                                     *)
(***************************************************************************)
\* longest firmware source, in catalogue items, offered to the parser
MaxRecs == 3

(***************************************************************************)
(* Hexadecimal text (lib/hexdump.c as used at iqs5xx.c:799-825)            *)
(***************************************************************************)
HexUpper == <<"0","1","2","3","4","5","6","7","8","9","A","B","C","D","E","F">>
HexLower == <<"0","1","2","3","4","5","6","7","8","9","a","b","c","d","e","f">>

\* hex_to_bin(): the value of one hexadecimal digit, -1 for any other character
hex_to_bin(ch) ==
    IF \E n \in 1..16 : HexUpper[n] = ch
    THEN (CHOOSE n \in 1..16 : HexUpper[n] = ch) - 1
    ELSE IF \E n \in 1..16 : HexLower[n] = ch
    THEN (CHOOSE n \in 1..16 : HexLower[n] = ch) - 1
    ELSE -1

\* hex2bin(dst, src, count): [err, bin]; src is the text from index `from` (1-based)
hex2bin(text, from, count) ==
    LET hi(k) == hex_to_bin(text[from + 2 * (k - 1)])
        lo(k) == hex_to_bin(text[from + 2 * (k - 1) + 1])
    IN  IF \E k \in 1..count : hi(k) < 0 \/ lo(k) < 0
        THEN [err |-> -EINVAL, bin |-> <<>>]
        ELSE [err |-> 0, bin |-> [k \in 1..count |-> hi(k) * 16 + lo(k)]]

RECURSIVE SumSeq(_)
SumSeq(s) == IF s = <<>> THEN 0 ELSE Head(s) + SumSeq(Tail(s))

\* get_unaligned_be16
get_unaligned_be16(b, k) == b[k] * 256 + b[k + 1]

(***************************************************************************)
(* The image buffer pmap: kzalloc(IQS5XX_PMAP_LEN) (iqs5xx.c:893).  It is  *)
(* kept sparsely: a function from the offsets written so far to their      *)
(* bytes; every other offset of the buffer holds the zero kzalloc put.     *)
(***************************************************************************)
ZeroPmap == [o \in {} |-> 0]

PmapByte(p, off) == IF off \in DOMAIN p THEN p[off] ELSE 0

\* PmapCopy that keeps the bytes an earlier record stored: what C17 rules out
PmapCopyKeep(p, off, data) ==
    LET hit == {o \in off..(off + Len(data) - 1) : o < IQS5XX_PMAP_LEN}
    IN  [o \in (DOMAIN p) \cup hit |->
            IF o \in DOMAIN p THEN p[o] ELSE data[o - off + 1]]

\* memcpy(pmap + off, data, Len(data)), bytes past the buffer's end left out
PmapCopy(p, off, data) ==
    LET hit == {o \in off..(off + Len(data) - 1) : o < IQS5XX_PMAP_LEN}
    IN  [o \in (DOMAIN p) \cup hit |->
            IF o \in hit THEN data[o - off + 1] ELSE p[o]]

(***************************************************************************)
(* iqs5xx_fw_file_parse, one pass of the do-while body (iqs5xx.c:783-877). *)
(* text is fw->data (1-based), pos the 0-based offset into it.  The result *)
(* holds the locals as the pass leaves them; oob says that memcpy wrote    *)
(* past the end of pmap.                                                   *)
(***************************************************************************)
RecChksm(hdr, data) == (U8 - ((SumSeq(hdr) + SumSeq(data)) % U8)) % U8

\* iqs5xx.c:839: a checksum mismatch is an error below the customization region
ChksmRejected(chksm, rec_chksm, rec_addr) ==
    chksm # rec_chksm /\ rec_addr < IQS5XX_CSTM

\* iqs5xx.c:849-850
AddrInvalid(rec_addr) == rec_addr < IQS5XX_CHKSM \/ rec_addr > IQS5XX_PMAP_END

\* iqs5xx.c:872-876: skip to the next ':' or to the end of the input
RECURSIVE SkipToStart(_, _)
SkipToStart(text, pos) ==
    IF pos < Len(text) /\ text[pos + 1] # ":" THEN SkipToStart(text, pos + 1)
    ELSE pos

ParseFail(why, pos, pm, typ) ==
    [error |-> -EINVAL, why |-> why, pos |-> pos, pmap |-> pm,
     rec_type |-> typ, rec_addr |-> -1, rec_len |-> 0, chk_ok |-> TRUE,
     oob |-> FALSE, stored |-> FALSE]

ParseRecord(text, pos0, pm) ==
    IF pos0 + SizeofRec > Len(text) THEN ParseFail("size", pos0, pm, -1)
    ELSE IF text[pos0 + 1] # ":" THEN ParseFail("start", pos0 + SizeofRec, pm, -1)
    ELSE
    LET pos1 == pos0 + SizeofRec
        h == hex2bin(text, pos0 + 2, IQS5XX_REC_HDR_LEN)
    IN  IF h.err # 0 THEN ParseFail("header", pos1, pm, -1)
        ELSE
        LET rec_hdr == h.bin
            rec_len == rec_hdr[1]
            rec_addr == get_unaligned_be16(rec_hdr, 2)
            rec_type == rec_hdr[4]
        IN  IF pos1 + rec_len * 2 > Len(text)
            THEN ParseFail("size", pos1, pm, rec_type)
            ELSE
            LET pos2 == pos1 + rec_len * 2
                d == hex2bin(text, pos0 + 10, rec_len)
                c == hex2bin(text, pos0 + 10 + rec_len * 2, 1)
            IN  IF d.err # 0 THEN ParseFail("data", pos2, pm, rec_type)
                ELSE IF c.err # 0 THEN ParseFail("chksm_hex", pos2, pm, rec_type)
                ELSE
                LET rec_chksm == c.bin[1]
                    chksm == RecChksm(rec_hdr, d.bin)
                    out == [error |-> 0, why |-> "ok", pos |-> pos2, pmap |-> pm,
                            rec_type |-> rec_type, rec_addr |-> rec_addr,
                            rec_len |-> rec_len, chk_ok |-> (chksm = rec_chksm),
                            oob |-> FALSE, stored |-> FALSE]
                IN  IF ChksmRejected(chksm, rec_chksm, rec_addr)
                    THEN [out EXCEPT !.error = -EINVAL, !.why = "chksm"]
                    ELSE IF rec_type = IQS5XX_REC_TYPE_DATA
                    THEN IF AddrInvalid(rec_addr)
                         THEN [out EXCEPT !.error = -EINVAL, !.why = "addr"]
                         ELSE [out EXCEPT
                                 !.pmap = PmapCopy(pm, rec_addr - IQS5XX_CHKSM, d.bin),
                                 !.oob = (rec_addr - IQS5XX_CHKSM + rec_len
                                            > IQS5XX_PMAP_LEN),
                                 !.stored = TRUE,
                                 !.pos = SkipToStart(text, pos2)]
                    ELSE IF rec_type = IQS5XX_REC_TYPE_EOF
                    THEN [out EXCEPT !.pos = SkipToStart(text, pos2)]
                    ELSE [out EXCEPT !.error = -EINVAL, !.why = "type"]


(***************************************************************************)
(* Firmware sources offered to the parser.  A record is rendered the way   *)
(* the vendor tool writes it: ':' len addr type data checksum, then a line *)
(* end.  bad = 1 renders a checksum one off the right one.                 *)
(***************************************************************************)
Hex2(digits, n) == <<digits[(n \div 16) + 1], digits[(n % 16) + 1]>>

RECURSIVE HexBytes(_, _)
HexBytes(digits, bytes) ==
    IF bytes = <<>> THEN <<>>
    ELSE Hex2(digits, Head(bytes)) \o HexBytes(digits, Tail(bytes))

RecHdr(addr, type, data) == <<Len(data), addr \div 256, addr % 256, type>>

Render(digits, addr, type, data, bad) ==
    <<":">> \o HexBytes(digits, RecHdr(addr, type, data)) \o HexBytes(digits, data)
        \o Hex2(digits, (RecChksm(RecHdr(addr, type, data), data) + bad) % U8)
        \o <<"\n">>

DataRec(addr, data, bad) == Render(HexUpper, addr, IQS5XX_REC_TYPE_DATA, data, bad)
EofRec(addr, bad) == Render(HexUpper, addr, IQS5XX_REC_TYPE_EOF, <<>>, bad)

\* the records and fragments firmware sources are put together from
Catalogue ==
    { DataRec(IQS5XX_CHKSM, <<17>>, 0),            \* first byte of the image
      DataRec(IQS5XX_CHKSM, <<34, 51>>, 0),        \* overlays the record above
      DataRec(IQS5XX_APP, <<68>>, 1),              \* wrong checksum, application
      DataRec(IQS5XX_CSTM, <<119>>, 1),            \* wrong checksum, customization
      DataRec(IQS5XX_PMAP_END, <<153, 170>>, 0),   \* runs past the last byte
      DataRec(IQS5XX_PMAP_END + 1, <<1>>, 1),      \* above it, wrong checksum
      Render(HexLower, IQS5XX_APP + 10, IQS5XX_REC_TYPE_DATA, <<171>>, 0),
      Render(HexUpper, IQS5XX_APP, 2, <<>>, 0),    \* unknown record type
      EofRec(65535, 0),                            \* the vendor's end-of-file record
      EofRec(65535, 1),                            \* the same, wrong checksum
      EofRec(0, 1),                                \* standard address, wrong checksum
      <<"G">>,                                     \* stray text
      <<":", "0", "1", "8", "G", "0", "0", "0", "0", "1", "1", "E", "E", "\n">>,
      <<":", "0", "1", "8", "4", "0", "0", "0", "0", "1", "G", "E", "E", "\n">>,
      <<":", "0", "2", "8", "4", "0", "0", "0", "0", "1", "1">> }

\* a firmware source is a sequence of catalogue items; its text is their
\* concatenation
RECURSIVE Sources(_)
Sources(n) ==
    IF n = 0 THEN {<<>>}
    ELSE LET shorter == Sources(n - 1)
         IN  shorter \cup {Append(t, c) : t \in shorter, c \in Catalogue}

RECURSIVE Flatten(_)
Flatten(src) == IF src = <<>> THEN <<>> ELSE Head(src) \o Flatten(Tail(src))

\* every firmware source of at most MaxRecs catalogue items
ParseInputs == Sources(MaxRecs)

\* the firmware files present while the driver runs
GoodImageA == <<DataRec(IQS5XX_CHKSM, <<17>>, 0), DataRec(IQS5XX_CSTM, <<119>>, 1),
                EofRec(65535, 0)>>
GoodImageB == <<DataRec(IQS5XX_CSTM - 1, <<85, 102>>, 0), EofRec(65535, 1)>>
BadChksmImage == <<DataRec(IQS5XX_CHKSM, <<17>>, 0), DataRec(IQS5XX_APP, <<68>>, 1),
                   EofRec(65535, 0)>>
NoEofImage == <<DataRec(IQS5XX_CHKSM, <<17>>, 0)>>
BadStartImage == <<<<"G">>, DataRec(IQS5XX_CHKSM, <<17>>, 0), EofRec(65535, 0)>>
BadAddrImage == <<DataRec(IQS5XX_CHKSM, <<17>>, 0), DataRec(IQS5XX_CHKSM - 1, <<1>>, 0),
                  EofRec(65535, 0)>>
BadTypeImage == <<DataRec(IQS5XX_CHKSM, <<17>>, 0),
                  Render(HexUpper, IQS5XX_APP, 2, <<>>, 0), EofRec(65535, 0)>>
BadHeaderImage ==
    <<DataRec(IQS5XX_CHKSM, <<17>>, 0),
      <<":", "0", "1", "8", "G", "0", "0", "0", "0", "1", "1", "E", "E", "\n">>,
      EofRec(65535, 0)>>
BadDataImage ==
    <<DataRec(IQS5XX_CHKSM, <<17>>, 0),
      <<":", "0", "1", "8", "4", "0", "0", "0", "0", "1", "G", "E", "E", "\n">>,
      EofRec(65535, 0)>>
DriverInputs ==
    {GoodImageA, GoodImageB, BadChksmImage, NoEofImage, BadStartImage, BadAddrImage,
     BadTypeImage, BadHeaderImage, BadDataImage, <<>>}


(***************************************************************************)
(* State                                                                   *)
(***************************************************************************)
VARIABLES
    bl_status,      \* iqs5xx->bl_status
    input,          \* iqs5xx->input: "NULL" or "alloc"
    registered,     \* successful input_register_device calls since probe
    irq_requested,  \* devm_request_threaded_irq succeeded
    lock,           \* iqs5xx->lock: "free", or the thread holding it
    irq_depth,      \* disable_irq nesting of client->irq
    fs,             \* the firmware sources reject_firmware can load
    fwt,            \* thread "fw": program counter, call stack and locals
    obs,            \* what the current iqs5xx_fw_file_write call did so far
    irqt,           \* thread "irq": iqs5xx_irq
    pmt             \* thread "pm": iqs5xx_set_state

vars == <<bl_status, input, registered, irq_requested, lock, irq_depth, fs,
          fwt, obs, irqt, pmt>>

dev == <<bl_status, input, registered, irq_requested>>
others == <<irqt, pmt>>

(***************************************************************************)
(* Bus transport.  One i2c_transfer / i2c_master_send either moves the     *)
(* whole message ("ok"), returns a smaller count ("short") or a negative   *)
(* error ("err").                                                          *)
(***************************************************************************)
Xfer == {"ok", "short", "err"}

\* XferError without the conversion of a short count: what C15 rules out
XferErrorKeep(x) == IF x = "short" THEN 1 ELSE -ENXIO

\* iqs5xx.c:162-163, 216-217, 318-319, 383-384, 427-428: if (ret >= 0) ret = -EIO
XferError(x) == IF x = "short" THEN -EIO ELSE -ENXIO

\* iqs5xx_read_burst (iqs5xx.c:154-168): pass i of the retry loop with outcome x
\* n is the number of transfers the pass attempted
read_burst(i, x) ==
    IF x = "ok" THEN [done |-> TRUE, ret |-> 0, i |-> 0, n |-> 1]
    ELSE IF i + 1 < IQS5XX_NUM_RETRIES
    THEN [done |-> FALSE, ret |-> 0, i |-> i + 1, n |-> 1]
    ELSE [done |-> TRUE, ret |-> XferError(x), i |-> 0, n |-> 1]

\* iqs5xx_write_burst (iqs5xx.c:197-222)
write_burst(len, i, x) ==
    IF len > IQS5XX_WR_BYTES_MAX
    THEN [done |-> TRUE, ret |-> -EINVAL, i |-> 0, n |-> 0]
    ELSE IF x = "ok" THEN [done |-> TRUE, ret |-> 0, i |-> 0, n |-> 1]
    ELSE IF i + 1 < IQS5XX_NUM_RETRIES
    THEN [done |-> FALSE, ret |-> 0, i |-> i + 1, n |-> 1]
    ELSE [done |-> TRUE, ret |-> XferError(x), i |-> 0, n |-> 1]

(***************************************************************************)
(* Bootloader protocol                                                     *)
(***************************************************************************)
BlCmds == {"VER", "READ", "EXEC", "CRC"}
\* what the device may answer to Version and to CRC
VerAnswers == {IQS5XX_BL_ID, 0}
CrcAnswers == {IQS5XX_BL_CRC_PASS, IQS5XX_BL_CRC_FAIL}

\* iqs5xx_bl_cmd (iqs5xx.c:247-327): x1, x2 the outcomes of the command and of
\* the response transfer, answer the response read
iqs5xx_bl_cmd(bl_cmd, x1, x2, answer) ==
    IF bl_cmd \notin BlCmds THEN -EINVAL
    ELSE IF x1 # "ok" THEN XferError(x1)
    ELSE IF bl_cmd \in {"EXEC", "READ"} THEN 0
    ELSE IF x2 # "ok" THEN XferError(x2)
    ELSE IF bl_cmd = "VER" /\ answer # IQS5XX_BL_ID THEN -EINVAL
    ELSE IF bl_cmd = "CRC" /\ answer # IQS5XX_BL_CRC_PASS THEN -EIO
    ELSE 0

\* BlOpenStops for an open sequence that retries a wrong ID as well: what
\* the amended C9 rules out
BlOpenStopsOnSuccess(error) == error = 0

\* iqs5xx.c:343: the probe results that end iqs5xx_bl_open at once
BlOpenStops(error) == error = 0 \/ error = -EINVAL

(***************************************************************************)
(* Observations of thread "fw" (history, not program state)                *)
(***************************************************************************)
NoBus == [op |-> "none", addr |-> 0, site |-> "none", ret |-> 0]

ObsInit ==
    [in_write |-> FALSE, parsed |-> "no", bus |-> FALSE, rst |-> FALSE,
     locked |-> FALSE, bl0 |-> IQS5XX_BL_STATUS_RESET, step_failed |-> FALSE,
     n_dis |-> 0, n_en |-> 0, safe |-> TRUE, last |-> NoBus,
     bo_resets |-> 0, bo_probes |-> 0, bo_all_wrong |-> FALSE, oob |-> FALSE,
     diff |-> FALSE, verr |-> -1, n_exec |-> 0, n_init |-> 0, tail_rst |-> 0,
     id_case |-> "none", wr_off |-> -1, ack |-> FALSE, id_byte |-> 0, wrs |-> <<>>,
     bo_since |-> 0, bo_silent |-> FALSE]

\* a bus transaction, or a reset pulse, is safe when made under the session
\* lock with the interrupt line disabled
Guarded == lock = "fw" /\ irq_depth > 0

ObsBus(o, op, addr, site, ret) ==
    [o EXCEPT !.bus = TRUE, !.safe = o.safe /\ Guarded,
              !.last = [op |-> op, addr |-> addr, site |-> site, ret |-> ret]]

ObsReset(o) == [o EXCEPT !.rst = TRUE, !.safe = o.safe /\ Guarded]

\* a register write of identification, kept in o.wrs once it has succeeded
ObsWrite(o, addr, site, b) ==
    [ObsBus(o, "WR", addr, site, b.ret) EXCEPT
       !.wrs = IF b.done /\ b.ret = 0 THEN Append(@, addr) ELSE @]

(***************************************************************************)
(* Calls and returns of thread "fw"                                        *)
(***************************************************************************)
FwtInit ==
    [pc |-> "probe", stack |-> <<>>, error |-> 0, ret |-> 0, input_reg |-> FALSE,
     src |-> <<>>, fw |-> <<>>, pos |-> 0, rec_num |-> 1, rec |-> ParseFail("none", 0, ZeroPmap, -1),
     pmap |-> ZeroPmap, i |-> 0, j |-> 0, bl_addr |-> 0, pmap_len |-> 0, k |-> 0,
     tries |-> 0, val |-> 0, max_x_hw |-> 0, max_y_hw |-> 0, max_x |-> 0, max_y |-> 0,
     prop |-> [swap_x_y |-> FALSE, invert_x |-> FALSE, invert_y |-> FALSE,
               max_x |-> 0, max_y |-> 0],
     id_bl_status |-> 0]

\* a return: the callee's locals die, the caller resumes with the value
Return(t, value) ==
    [t EXCEPT !.pc = Head(t.stack), !.stack = Tail(t.stack), !.ret = value,
              !.tries = 0, !.val = 0, !.id_bl_status = 0, !.i = 0, !.j = 0]

Call(t, entry, back) == [t EXCEPT !.pc = entry, !.stack = <<back>> \o t.stack]

\* iqs5xx_bl_open entered: by a call, or as `return iqs5xx_bl_open(client)`
EnterBlOpen(t) == [t EXCEPT !.pc = "bo_reset", !.i = 0, !.j = 0]

EnterBlWrite(t, bl_addr, pmap_len) ==
    [t EXCEPT !.pc = "bw_check", !.bl_addr = bl_addr, !.pmap_len = pmap_len, !.k = 0]

EnterBlVerify(t, bl_addr, pmap_len) ==
    [t EXCEPT !.pc = "bv_check", !.bl_addr = bl_addr, !.pmap_len = pmap_len, !.k = 0]

(***************************************************************************)
(* iqs5xx_bl_open (iqs5xx.c:329-351)                                       *)
(***************************************************************************)
\* iqs5xx.c:338-339: the next reset cycle
BlOpenReset ==
    /\ fwt.pc = "bo_reset"
    /\ fwt' = [fwt EXCEPT !.pc = "bo_probe", !.j = 0]
    /\ obs' = [ObsReset(obs) EXCEPT
                 !.bo_resets = IF fwt.i = 0 THEN 1 ELSE obs.bo_resets + 1,
                 !.bo_probes = IF fwt.i = 0 THEN 0 ELSE obs.bo_probes,
                 !.bo_all_wrong = IF fwt.i = 0 THEN TRUE ELSE obs.bo_all_wrong,
                 !.bo_since = 0,
                 !.bo_silent = IF fwt.i = 0 THEN TRUE ELSE obs.bo_silent]
    /\ UNCHANGED <<dev, lock, irq_depth, fs, others>>

\* MoreProbes with the bound taken inclusively: what C21 rules out
MoreProbesInclusive(j) == j < IQS5XX_NUM_RETRIES

\* iqs5xx.c:341: j++, j < IQS5XX_NUM_RETRIES after probe j
MoreProbes(j) == j + 1 < IQS5XX_NUM_RETRIES

\* iqs5xx.c:341-350: one Version probe, and the loop ends that follow it
BlOpenProbe ==
    /\ fwt.pc = "bo_probe"
    /\ \E x1 \in Xfer, x2 \in Xfer, answer \in VerAnswers :
         LET error == iqs5xx_bl_cmd("VER", x1, x2, answer)
             wrong == x1 = "ok" /\ x2 = "ok" /\ answer # IQS5XX_BL_ID
             o == [ObsBus(obs, "VER", 0, "bl_open", error) EXCEPT
                     !.bo_probes = obs.bo_probes + 1,
                     !.bo_all_wrong = obs.bo_all_wrong /\ wrong,
                     !.bo_since = obs.bo_since + 1,
                     !.bo_silent = obs.bo_silent /\ (x1 # "ok" \/ x2 # "ok"),
                     !.ack = (x1 = "ok" /\ x2 = "ok" /\ answer = IQS5XX_BL_ID)]
         IN  /\ obs' = o
             /\ fwt' = IF BlOpenStops(error) THEN Return(fwt, error)
                       ELSE IF MoreProbes(fwt.j)
                       THEN [fwt EXCEPT !.j = fwt.j + 1]
                       ELSE IF fwt.i + 1 < IQS5XX_BL_ATTEMPTS
                       THEN [fwt EXCEPT !.pc = "bo_reset", !.i = fwt.i + 1, !.j = 0]
                       ELSE Return(fwt, error)
    /\ UNCHANGED <<dev, lock, irq_depth, fs, others>>

(***************************************************************************)
(* iqs5xx_bl_write (iqs5xx.c:353-390)                                      *)
(***************************************************************************)
\* BlkLenInvalid for a block write that rounds the length up instead: what
\* C11 rules out
BlkLenInvalidNever(pmap_len) == FALSE

\* iqs5xx.c:360: the length is no whole number of blocks
BlkLenInvalid(pmap_len) == pmap_len % IQS5XX_BL_BLK_LEN_MAX # 0

\* iqs5xx.c:360-361
BlWriteCheck ==
    /\ fwt.pc = "bw_check"
    /\ fwt' = IF BlkLenInvalid(fwt.pmap_len) THEN Return(fwt, -EINVAL)
              ELSE [fwt EXCEPT !.pc = "bw_block", !.k = 0]
    /\ UNCHANGED <<dev, lock, irq_depth, fs, obs, others>>

\* iqs5xx.c:369: put_unaligned_be16(bl_addr + i, mbuf)
BlkAddr(bl_addr, i) == (bl_addr + i) % U16

\* BlkSrc that sends the head of the image in every block: what C18 rules out
BlkSrcFirst(i) == 0

\* iqs5xx.c:370-371: the block's payload starts at pmap_data + i
BlkSrc(i) == i

\* iqs5xx.c:368-390: the next block, or the end of the loop
BlWriteBlock ==
    /\ fwt.pc = "bw_block"
    /\ IF fwt.k < fwt.pmap_len
       THEN \E x \in Xfer :
              LET ret == IF x = "ok" THEN 0 ELSE XferError(x)
              IN  /\ obs' = [ObsBus(obs, "WRITE", BlkAddr(fwt.bl_addr, fwt.k),
                                    "bl_write", ret) EXCEPT
                               !.wr_off = BlkSrc(fwt.k)]
                  /\ fwt' = IF ret # 0 THEN Return(fwt, ret)
                            ELSE [fwt EXCEPT !.k = fwt.k + IQS5XX_BL_BLK_LEN_MAX]
       ELSE /\ fwt' = Return(fwt, 0)
            /\ obs' = obs
    /\ UNCHANGED <<dev, lock, irq_depth, fs, others>>

(***************************************************************************)
(* iqs5xx_bl_verify (iqs5xx.c:392-434)                                     *)
(***************************************************************************)
\* iqs5xx.c:399-400
BlVerifyCheck ==
    /\ fwt.pc = "bv_check"
    /\ fwt' = IF fwt.pmap_len % IQS5XX_BL_BLK_LEN_MAX # 0 THEN Return(fwt, -EINVAL)
              ELSE [fwt EXCEPT !.pc = "bv_block", !.k = 0]
    /\ UNCHANGED <<dev, lock, irq_depth, fs, obs, others>>

\* where the block the device returns may differ from the image: at no byte
\* (-1), or at one byte of the block
DiffAt == {-1, 0, IQS5XX_BL_BLK_LEN_MAX - 1}

\* BlkDiffers for a comparison that stops short of the last byte: what C12
\* rules out
BlkDiffersShort(d) == d >= 0 /\ d < IQS5XX_BL_BLK_LEN_MAX - 1

\* iqs5xx.c:415: memcmp(bl_data, pmap_data + i, sizeof(bl_data)), for a block
\* read back that differs from the image at byte d
BlkDiffers(d) == d >= 0 /\ d < IQS5XX_BL_BLK_LEN_MAX

\* iqs5xx.c:416-418: the address in "Failed to verify block at address"
VerifyErrAddr(bl_addr, i) == bl_addr + i

\* iqs5xx.c:407-434: read one block back and compare it
BlVerifyBlock ==
    /\ fwt.pc = "bv_block"
    /\ IF fwt.k < fwt.pmap_len
       THEN \E x1 \in Xfer, x2 \in Xfer, d \in DiffAt :
              LET cmd == iqs5xx_bl_cmd("READ", x1, "ok", 0)
                  mismatch == cmd = 0 /\ x2 = "ok" /\ BlkDiffers(d)
                  ret == IF cmd # 0 THEN cmd
                         ELSE IF x2 # "ok" THEN XferError(x2)
                         ELSE IF mismatch THEN -EIO
                         ELSE 0
              IN  /\ obs' = [ObsBus(obs, "READ", (fwt.bl_addr + fwt.k) % U16,
                                    "bl_verify", ret) EXCEPT
                               !.diff = obs.diff \/ (x1 = "ok" /\ x2 = "ok" /\ d >= 0),
                               !.verr = IF mismatch
                                        THEN VerifyErrAddr(fwt.bl_addr, fwt.k)
                                        ELSE obs.verr]
                  /\ fwt' = IF ret # 0 THEN Return(fwt, ret)
                            ELSE [fwt EXCEPT !.k = fwt.k + IQS5XX_BL_BLK_LEN_MAX]
       ELSE /\ fwt' = Return(fwt, 0)
            /\ obs' = obs
    /\ UNCHANGED <<dev, lock, irq_depth, fs, others>>


(***************************************************************************)
(* iqs5xx_dev_init (iqs5xx.c:601-700) with iqs5xx_axis_init (481-599)      *)
(***************************************************************************)
\* the 7 bytes the device may return for the identity block at 0x0000
IdReads ==
    { <<0, 40, 0, 15, 2, 0, 165>>,     \* IQS550 B000 2.0, bootloader available
      <<0, 58, 0, 15, 2, 1, 238>>,     \* IQS572 B000 2.1, no bootloader
      <<0, 52, 0, 15, 2, 0, 7>>,       \* unknown bootloader status
      <<0, 40, 0, 15, 1, 9, 165>>,     \* major version 1
      <<0, 40, 0, 0, 2, 0, 165>>,      \* project A000
      <<0, 40, 0, 16, 2, 0, 165>>,     \* unknown project
      <<0, 41, 0, 15, 2, 0, 165>>,     \* unknown product
      <<40, 0, 0, 1, 0, 165, 0>>,      \* A000 answering 16-bit addressing
      <<0, 41, 0, 0, 2, 0, 165>>,      \* unknown product, project A000
      <<0, 40, 0, 16, 1, 0, 7>>,       \* unknown project, major version 1
      <<0, 40, 0, 15, 1, 9, 7>>,       \* major version 1, unknown bootloader status
      <<52, 0, 15, 2, 0, 238, 9>> }    \* shifted identity that passes every check

\* DecodeId without the prepended zero: what C22 rules out
DecodeIdDirect(r) ==
    [prod_num |-> get_unaligned_be16(r, 1), proj_num |-> get_unaligned_be16(r, 3),
     major_ver |-> r[5], minor_ver |-> r[6], bl_status |-> r[7]]

\* iqs5xx.c:621-622: buf[0] = 0, the identity starts at buf[0] when buf[1] > 0
DecodeId(r) ==
    LET b == IF r[1] > 0 THEN <<0>> \o SubSeq(r, 1, SizeofDevIdInfo - 1) ELSE r
    IN  [prod_num |-> get_unaligned_be16(b, 1), proj_num |-> get_unaligned_be16(b, 3),
         major_ver |-> b[5], minor_ver |-> b[6], bl_status |-> b[7]]

\* the first of the outcomes of identification an identity read falls under:
\* the read failed, the product number, the project number A000, another
\* project number than B000, the major version, the bootloader status
IdCase(ret, id) ==
    IF ret # 0 THEN "read_fail"
    ELSE IF id.prod_num \notin {IQS5XX_PROD_NUM_IQS550, IQS5XX_PROD_NUM_IQS572,
                                IQS5XX_PROD_NUM_IQS525} THEN "prod"
    ELSE IF id.proj_num = IQS5XX_PROJ_NUM_A000 THEN "a000"
    ELSE IF id.proj_num # IQS5XX_PROJ_NUM_B000 THEN "proj"
    ELSE IF id.major_ver < IQS5XX_MAJOR_VER_MIN THEN "major"
    ELSE IF id.bl_status \notin {IQS5XX_BL_STATUS_AVAIL, IQS5XX_BL_STATUS_NONE}
    THEN "bl"
    ELSE "pass"

\* IdVerdict with the project number checked before the product number:
\* what C16 rules out
IdVerdictProjFirst(id) ==
    IF id.proj_num = IQS5XX_PROJ_NUM_A000 THEN "bl_open"
    ELSE IF id.prod_num \notin {IQS5XX_PROD_NUM_IQS550, IQS5XX_PROD_NUM_IQS572,
                                IQS5XX_PROD_NUM_IQS525} THEN "einval"
    ELSE IF id.proj_num # IQS5XX_PROJ_NUM_B000 THEN "einval"
    ELSE IF id.major_ver < IQS5XX_MAJOR_VER_MIN THEN "bl_open"
    ELSE IF id.bl_status \notin {IQS5XX_BL_STATUS_AVAIL, IQS5XX_BL_STATUS_NONE}
    THEN "einval"
    ELSE "ok"

\* iqs5xx.c:624-663: "einval", "bl_open" or "ok"
IdVerdict(id) ==
    IF id.prod_num \notin {IQS5XX_PROD_NUM_IQS550, IQS5XX_PROD_NUM_IQS572,
                           IQS5XX_PROD_NUM_IQS525} THEN "einval"
    ELSE IF id.proj_num = IQS5XX_PROJ_NUM_A000 THEN "bl_open"
    ELSE IF id.proj_num # IQS5XX_PROJ_NUM_B000 THEN "einval"
    ELSE IF id.major_ver < IQS5XX_MAJOR_VER_MIN THEN "bl_open"
    ELSE IF id.bl_status \notin {IQS5XX_BL_STATUS_AVAIL, IQS5XX_BL_STATUS_NONE}
    THEN "einval"
    ELSE "ok"

\* iqs5xx.c:609-663: the identity read, its decoding and the checks
DevInitRead ==
    /\ fwt.pc = "di_read"
    /\ \E x \in Xfer, r \in IdReads :
         LET b == read_burst(fwt.tries, x)
             id == DecodeId(r)
             t == [fwt EXCEPT !.tries = b.i]
         IN  /\ obs' = [ObsBus(obs, "RD", IQS5XX_PROD_NUM, "dev_init", b.ret) EXCEPT
                          !.id_case = IF b.done THEN IdCase(b.ret, id) ELSE @,
                          !.id_byte = IF b.done /\ b.ret = 0 /\ IdCase(b.ret, id) = "pass"
                                      THEN id.bl_status ELSE 0]
             /\ fwt' = IF ~b.done THEN t
                       ELSE IF b.ret # 0 THEN EnterBlOpen(t)
                       ELSE IF IdVerdict(id) = "einval" THEN Return(t, -EINVAL)
                       ELSE IF IdVerdict(id) = "bl_open" THEN EnterBlOpen(t)
                       ELSE [t EXCEPT !.pc = "ax_alloc", !.id_bl_status = id.bl_status]
    /\ UNCHANGED <<dev, lock, irq_depth, fs, others>>

\* device-tree properties touchscreen_parse_properties may deliver
Props ==
    { [swap_x_y |-> FALSE, invert_x |-> FALSE, invert_y |-> FALSE,
       max_x |-> 0, max_y |-> 0],
      [swap_x_y |-> TRUE, invert_x |-> TRUE, invert_y |-> TRUE,
       max_x |-> 100, max_y |-> 300] }
\* values the device may hold in TOTAL_RX / TOTAL_TX, XY_CFG0, X_RES / Y_RES, SYS_CFG0
TotalVals == {2}
XyCfgVals == {0, 4}
ResVals == {768}
SysCfgVals == {16}

BitSet(v, b) == (v \div b) % 2 = 1
XorBit(v, b) == IF BitSet(v, b) THEN v - b ELSE v + b

\* iqs5xx.c:491-509: allocate the input device once, read the properties
AxisAlloc ==
    /\ fwt.pc = "ax_alloc"
    /\ \E ok \in BOOLEAN, prop \in Props :
         IF input = "NULL" /\ ~ok
         THEN /\ fwt' = Return(fwt, -ENOMEM)
              /\ input' = input
         ELSE /\ fwt' = [fwt EXCEPT !.pc = "ax_rx", !.prop = prop]
              /\ input' = "alloc"
    /\ UNCHANGED <<bl_status, registered, irq_requested, lock, irq_depth, fs, obs,
                   others>>

\* the end of the axis locals' life
AxisDone(t) ==
    [t EXCEPT !.val = 0, !.max_x_hw = 0, !.max_y_hw = 0, !.max_x = 0, !.max_y = 0,
              !.prop = FwtInit.prop]

\* iqs5xx.c:511-514
AxisRx ==
    /\ fwt.pc = "ax_rx"
    /\ \E x \in Xfer, val \in TotalVals :
         LET b == read_burst(fwt.tries, x)
             t == [fwt EXCEPT !.tries = b.i]
         IN  /\ obs' = ObsBus(obs, "RD", IQS5XX_TOTAL_RX, "axis_init", b.ret)
             /\ fwt' = IF ~b.done THEN t
                       ELSE IF b.ret # 0 THEN Return(AxisDone(t), b.ret)
                       ELSE [t EXCEPT !.pc = "ax_tx",
                                      !.max_x_hw = ((val - 1) * IQS5XX_NUM_POINTS) % U16]
    /\ UNCHANGED <<dev, lock, irq_depth, fs, others>>

\* iqs5xx.c:516-519
AxisTx ==
    /\ fwt.pc = "ax_tx"
    /\ \E x \in Xfer, val \in TotalVals :
         LET b == read_burst(fwt.tries, x)
             t == [fwt EXCEPT !.tries = b.i]
         IN  /\ obs' = ObsBus(obs, "RD", IQS5XX_TOTAL_TX, "axis_init", b.ret)
             /\ fwt' = IF ~b.done THEN t
                       ELSE IF b.ret # 0 THEN Return(AxisDone(t), b.ret)
                       ELSE [t EXCEPT !.pc = "ax_cfg_rd",
                                      !.max_y_hw = ((val - 1) * IQS5XX_NUM_POINTS) % U16]
    /\ UNCHANGED <<dev, lock, irq_depth, fs, others>>

\* iqs5xx.c:525-535: XY_CFG0 as the properties change it
XyCfg(val, prop) ==
    LET v1 == IF prop.swap_x_y THEN XorBit(val, IQS5XX_SWITCH_XY_AXIS) ELSE val
        v2 == IF prop.invert_x
              THEN XorBit(v1, IF prop.swap_x_y THEN IQS5XX_FLIP_Y ELSE IQS5XX_FLIP_X)
              ELSE v1
    IN  IF prop.invert_y
        THEN XorBit(v2, IF prop.swap_x_y THEN IQS5XX_FLIP_X ELSE IQS5XX_FLIP_Y)
        ELSE v2

\* iqs5xx.c:521-535
AxisCfgRead ==
    /\ fwt.pc = "ax_cfg_rd"
    /\ \E x \in Xfer, val \in XyCfgVals :
         LET b == read_burst(fwt.tries, x)
             t == [fwt EXCEPT !.tries = b.i]
             sw == BitSet(val, IQS5XX_SWITCH_XY_AXIS)
         IN  /\ obs' = ObsBus(obs, "RD", IQS5XX_XY_CFG0, "axis_init", b.ret)
             /\ fwt' = IF ~b.done THEN t
                       ELSE IF b.ret # 0 THEN Return(AxisDone(t), b.ret)
                       ELSE [t EXCEPT !.pc = "ax_cfg_wr",
                                      !.max_x_hw = IF sw THEN fwt.max_y_hw ELSE fwt.max_x_hw,
                                      !.max_y_hw = IF sw THEN fwt.max_x_hw ELSE fwt.max_y_hw,
                                      !.val = XyCfg(val, fwt.prop)]
    /\ UNCHANGED <<dev, lock, irq_depth, fs, others>>

\* iqs5xx.c:537-539
AxisCfgWrite ==
    /\ fwt.pc = "ax_cfg_wr"
    /\ \E x \in Xfer :
         LET b == write_burst(1, fwt.tries, x)
             t == [fwt EXCEPT !.tries = b.i]
         IN  /\ obs' = ObsWrite(obs, IQS5XX_XY_CFG0, "axis_init", b)
             /\ fwt' = IF ~b.done THEN t
                       ELSE IF b.ret # 0 THEN Return(AxisDone(t), b.ret)
                       ELSE [t EXCEPT !.pc = "ax_max_x", !.val = 0]
    /\ UNCHANGED <<dev, lock, irq_depth, fs, others>>

\* iqs5xx.c:541-556
AxisMaxX ==
    /\ fwt.pc = "ax_max_x"
    /\ IF fwt.prop.max_x > fwt.max_x_hw
       THEN /\ fwt' = Return(AxisDone(fwt), -EINVAL)
            /\ obs' = obs
       ELSE IF fwt.prop.max_x = 0
       THEN \E x \in Xfer, res \in ResVals :
              LET b == read_burst(fwt.tries, x)
                  t == [fwt EXCEPT !.tries = b.i]
              IN  /\ obs' = ObsBus(obs, "RD", IQS5XX_X_RES, "axis_init", b.ret)
                  /\ fwt' = IF ~b.done THEN t
                            ELSE IF b.ret # 0 THEN Return(AxisDone(t), b.ret)
                            ELSE [t EXCEPT !.pc = "ax_max_y", !.max_x = res]
       ELSE /\ fwt' = [fwt EXCEPT !.pc = "ax_max_y", !.max_x = fwt.prop.max_x % U16]
            /\ obs' = obs
    /\ UNCHANGED <<dev, lock, irq_depth, fs, others>>

\* iqs5xx.c:558-573
AxisMaxY ==
    /\ fwt.pc = "ax_max_y"
    /\ IF fwt.prop.max_y > fwt.max_y_hw
       THEN /\ fwt' = Return(AxisDone(fwt), -EINVAL)
            /\ obs' = obs
       ELSE IF fwt.prop.max_y = 0
       THEN \E x \in Xfer, res \in ResVals :
              LET b == read_burst(fwt.tries, x)
                  t == [fwt EXCEPT !.tries = b.i]
              IN  /\ obs' = ObsBus(obs, "RD", IQS5XX_Y_RES, "axis_init", b.ret)
                  /\ fwt' = IF ~b.done THEN t
                            ELSE IF b.ret # 0 THEN Return(AxisDone(t), b.ret)
                            ELSE [t EXCEPT !.pc = "ax_wr_x", !.max_y = res]
       ELSE /\ fwt' = [fwt EXCEPT !.pc = "ax_wr_x", !.max_y = fwt.prop.max_y % U16]
            /\ obs' = obs
    /\ UNCHANGED <<dev, lock, irq_depth, fs, others>>

\* iqs5xx.c:580-584
AxisWriteX ==
    /\ fwt.pc = "ax_wr_x"
    /\ \E x \in Xfer :
         LET b == write_burst(2, fwt.tries, x)
             t == [fwt EXCEPT !.tries = b.i]
             reg == IF fwt.prop.swap_x_y THEN IQS5XX_Y_RES ELSE IQS5XX_X_RES
         IN  /\ obs' = ObsWrite(obs, reg, "axis_init", b)
             /\ fwt' = IF ~b.done THEN t
                       ELSE IF b.ret # 0 THEN Return(AxisDone(t), b.ret)
                       ELSE [t EXCEPT !.pc = "ax_wr_y"]
    /\ UNCHANGED <<dev, lock, irq_depth, fs, others>>

\* iqs5xx.c:586-598 and 665-667: the second resolution write, input_mt_init_slots
AxisWriteY ==
    /\ fwt.pc = "ax_wr_y"
    /\ \E x \in Xfer, slots \in {0, -ENOMEM} :
         LET b == write_burst(2, fwt.tries, x)
             t == [fwt EXCEPT !.tries = b.i]
             reg == IF fwt.prop.swap_x_y THEN IQS5XX_X_RES ELSE IQS5XX_Y_RES
         IN  /\ obs' = ObsWrite(obs, reg, "axis_init", b)
             /\ fwt' = IF ~b.done THEN t
                       ELSE IF b.ret # 0 THEN Return(AxisDone(t), b.ret)
                       ELSE IF slots # 0 THEN Return(AxisDone(t), slots)
                       ELSE [AxisDone(t) EXCEPT !.pc = "di_cfg0_rd"]
    /\ UNCHANGED <<dev, lock, irq_depth, fs, others>>

\* iqs5xx.c:669-674
DevInitCfg0Read ==
    /\ fwt.pc = "di_cfg0_rd"
    /\ \E x \in Xfer, val \in SysCfgVals :
         LET b == read_burst(fwt.tries, x)
             t == [fwt EXCEPT !.tries = b.i]
             v1 == IF BitSet(val, IQS5XX_SETUP_COMPLETE) THEN val
                   ELSE val + IQS5XX_SETUP_COMPLETE
             v2 == IF BitSet(v1, IQS5XX_SW_INPUT_EVENT) THEN v1 - IQS5XX_SW_INPUT_EVENT
                   ELSE v1
         IN  /\ obs' = ObsBus(obs, "RD", IQS5XX_SYS_CFG0, "dev_init", b.ret)
             /\ fwt' = IF ~b.done THEN t
                       ELSE IF b.ret # 0 THEN Return(t, b.ret)
                       ELSE [t EXCEPT !.pc = "di_cfg0_wr", !.val = v2]
    /\ UNCHANGED <<dev, lock, irq_depth, fs, others>>

\* iqs5xx.c:675-679
DevInitCfg0Write ==
    /\ fwt.pc = "di_cfg0_wr"
    /\ \E x \in Xfer :
         LET b == write_burst(1, fwt.tries, x)
             t == [fwt EXCEPT !.tries = b.i]
         IN  /\ obs' = ObsWrite(obs, IQS5XX_SYS_CFG0, "dev_init", b)
             /\ fwt' = IF ~b.done THEN t
                       ELSE IF b.ret # 0 THEN Return([t EXCEPT !.val = 0], b.ret)
                       ELSE [t EXCEPT !.pc = "di_cfg1_wr",
                                      !.val = IQS5XX_TP_EVENT + IQS5XX_EVENT_MODE]
    /\ UNCHANGED <<dev, lock, irq_depth, fs, others>>

\* iqs5xx.c:680-682
DevInitCfg1Write ==
    /\ fwt.pc = "di_cfg1_wr"
    /\ \E x \in Xfer :
         LET b == write_burst(1, fwt.tries, x)
             t == [fwt EXCEPT !.tries = b.i, !.val = IF b.done THEN 0 ELSE fwt.val]
         IN  /\ obs' = ObsWrite(obs, IQS5XX_SYS_CFG1, "dev_init", b)
             /\ fwt' = IF ~b.done THEN t
                       ELSE IF b.ret # 0 THEN Return(t, b.ret)
                       ELSE [t EXCEPT !.pc = "di_end_comm"]
    /\ UNCHANGED <<dev, lock, irq_depth, fs, others>>

\* StatusPublished for a status stored whatever became of the last write:
\* what C20 rules out
StatusPublishedAnyway(b) == b.done

\* iqs5xx.c:684-688: bl_status is assigned once the write of END_COMM
\* returned 0
StatusPublished(b) == b.done /\ b.ret = 0

\* iqs5xx.c:684-699: close the window, then publish the bootloader status
DevInitEndComm ==
    /\ fwt.pc = "di_end_comm"
    /\ \E x \in Xfer :
         LET b == write_burst(1, fwt.tries, x)
             t == [fwt EXCEPT !.tries = b.i]
         IN  /\ obs' = ObsWrite(obs, IQS5XX_END_COMM, "dev_init", b)
             /\ fwt' = IF ~b.done THEN t
                       ELSE IF b.ret # 0 THEN Return(t, b.ret)
                       ELSE Return(t, 0)
             /\ bl_status' = IF StatusPublished(b) THEN fwt.id_bl_status
                             ELSE bl_status
    /\ UNCHANGED <<input, registered, irq_requested, lock, irq_depth, fs, others>>


(***************************************************************************)
(* iqs5xx_fw_file_write (iqs5xx.c:884-953)                                 *)
(***************************************************************************)
\* FlashForbidden for a flash that requires a reported bootloader: what C14
\* rules out
FlashForbiddenUnlessAvail(status) == status # IQS5XX_BL_STATUS_AVAIL

\* iqs5xx.c:890: the device has no bootloader
FlashForbidden(status) == status = IQS5XX_BL_STATUS_NONE

\* iqs5xx.c:890-895
FwWriteEntry ==
    /\ fwt.pc = "fw_entry"
    /\ \E ok \in BOOLEAN :
         fwt' = IF FlashForbidden(bl_status) THEN Return(fwt, -EPERM)
                ELSE IF ~ok THEN Return(fwt, -ENOMEM)
                ELSE [fwt EXCEPT !.pc = "fw_request", !.pmap = ZeroPmap]
    /\ obs' = [ObsInit EXCEPT !.in_write = TRUE, !.bl0 = bl_status]
    /\ UNCHANGED <<dev, lock, irq_depth, fs, others>>

\* iqs5xx.c:776-781: the firmware source is loaded, or the request fails
FwRequestFirmware ==
    /\ fwt.pc = "fw_request"
    /\ \/ fwt' = [fwt EXCEPT !.pc = "fw_after_parse", !.ret = -ENOENT]
       \/ \E src \in fs :
            fwt' = [fwt EXCEPT !.pc = "fw_parse", !.src = src, !.fw = Flatten(src),
                               !.pos = 0, !.rec_num = 1]
    /\ UNCHANGED <<dev, lock, irq_depth, fs, obs, others>>

\* LoopEnds for a loop that runs on after an end-of-file record: what C5
\* rules out
LoopEndsOnError(error, rec_type) == error # 0

\* iqs5xx.c:868-869 and 877: the pass was the last one
LoopEnds(error, rec_type) == error # 0 \/ rec_type = IQS5XX_REC_TYPE_EOF

\* iqs5xx.c:783-881: one pass of the do-while loop; after the last pass the
\* firmware source is released and the parser returns
FwParseRecord ==
    /\ fwt.pc = "fw_parse"
    /\ LET r == ParseRecord(fwt.fw, fwt.pos, fwt.pmap)
           t == [fwt EXCEPT !.pmap = r.pmap, !.pos = r.pos,
                            !.rec = [r EXCEPT !.pmap = ZeroPmap],
                            !.rec_num = IF r.error = 0 THEN (fwt.rec_num + 1) % U16
                                        ELSE fwt.rec_num]
       IN  /\ fwt' = IF LoopEnds(r.error, r.rec_type)
                     THEN [t EXCEPT !.pc = "fw_after_parse", !.ret = r.error]
                     ELSE t
           /\ obs' = [obs EXCEPT !.oob = obs.oob \/ r.oob]
    /\ UNCHANGED <<dev, lock, irq_depth, fs, others>>

\* the parser's locals, dead once fw_file_write has its result
ParseDone(t) ==
    [t EXCEPT !.src = <<>>, !.fw = <<>>, !.pos = 0, !.rec_num = 1,
              !.rec = FwtInit.rec]

\* ParseFailed when the parser's result is ignored: what C3 rules out
ParseFailedNever(error) == FALSE

\* iqs5xx.c:898-899: `if (error) goto err_kfree`
ParseFailed(error) == error # 0

\* iqs5xx.c:897-899 (and 949-952 when parsing failed)
FwAfterParse ==
    /\ fwt.pc = "fw_after_parse"
    /\ fwt' = IF ParseFailed(fwt.ret)
              THEN Return([ParseDone(fwt) EXCEPT !.error = 0, !.pmap = ZeroPmap],
                          fwt.ret)
              ELSE [ParseDone(fwt) EXCEPT !.pc = "fw_lock", !.error = fwt.ret]
    /\ obs' = [obs EXCEPT !.parsed = IF fwt.ret # 0 THEN "fail" ELSE "ok"]
    /\ UNCHANGED <<dev, lock, irq_depth, fs, others>>

\* iqs5xx.c:901: mutex_lock
FwLock ==
    /\ fwt.pc = "fw_lock"
    /\ lock = "free"
    /\ lock' = "fw"
    /\ fwt' = [fwt EXCEPT !.pc = "fw_disable_irq"]
    /\ obs' = [obs EXCEPT !.locked = TRUE]
    /\ UNCHANGED <<dev, irq_depth, fs, others>>

\* DisableIrqReturns for disable_irq_nosync, which does not wait: what C7
\* rules out
DisableIrqNosync(handler_pc) == TRUE

\* disable_irq (iqs5xx.c:451 and 908) returns once no handler is running
DisableIrqReturns(handler_pc) == handler_pc = "idle"

\* iqs5xx.c:908
FwDisableIrq ==
    /\ fwt.pc = "fw_disable_irq"
    /\ DisableIrqReturns(irqt.pc)
    /\ irq_depth' = irq_depth + 1
    /\ fwt' = [fwt EXCEPT !.pc = "fw_set_reset"]
    /\ obs' = [obs EXCEPT !.n_dis = obs.n_dis + 1]
    /\ UNCHANGED <<dev, lock, fs, others>>

\* iqs5xx.c:910
FwSetReset ==
    /\ fwt.pc = "fw_set_reset"
    /\ bl_status' = IQS5XX_BL_STATUS_RESET
    /\ fwt' = [fwt EXCEPT !.pc = "fw_probe"]
    /\ UNCHANGED <<input, registered, irq_requested, lock, irq_depth, fs, obs, others>>

\* StepFailedLabel for an error path that leaves past enable_irq: what C6
\* rules out
StepFailedLabelUnlock(error) == "fw_unlock"

\* iqs5xx.c:916-931: `goto err_reset` after a failed step
StepFailedLabel(error) == "fw_err_reset"

\* ProbeNeedsOpen for a flash that always opens the bootloader: what C8
\* rules out
ProbeNeedsOpenAlways(error) == TRUE

\* iqs5xx.c:913: the open sequence runs when the probe failed
ProbeNeedsOpen(error) == error # 0

\* iqs5xx.c:912-919: the liveness probe; the open sequence when it fails, the
\* block writes when it succeeds
FwProbe ==
    /\ fwt.pc = "fw_probe"
    /\ \E x1 \in Xfer, x2 \in Xfer, answer \in VerAnswers :
         LET error == iqs5xx_bl_cmd("VER", x1, x2, answer)
             t == [fwt EXCEPT !.error = error]
         IN  /\ obs' = [ObsBus(obs, "VER", 0, "fw_file_write", error) EXCEPT
                          !.ack = (x1 = "ok" /\ x2 = "ok" /\ answer = IQS5XX_BL_ID)]
             /\ fwt' = IF ProbeNeedsOpen(error)
                       THEN Call(EnterBlOpen(t), "bo_reset", "fw_after_open")
                       ELSE Call(EnterBlWrite(t, IQS5XX_CHKSM, IQS5XX_PMAP_LEN),
                                 "bw_check", "fw_after_write")
    /\ UNCHANGED <<dev, lock, irq_depth, fs, others>>

\* iqs5xx.c:914-919
FwAfterOpen ==
    /\ fwt.pc = "fw_after_open"
    /\ fwt' = IF fwt.ret # 0
              THEN [fwt EXCEPT !.error = fwt.ret, !.pc = StepFailedLabel(fwt.ret)]
              ELSE Call(EnterBlWrite([fwt EXCEPT !.error = 0], IQS5XX_CHKSM,
                                     IQS5XX_PMAP_LEN),
                        "bw_check", "fw_after_write")
    /\ obs' = [obs EXCEPT !.bo_resets = 0, !.bo_probes = 0, !.bo_all_wrong = FALSE,
                          !.bo_since = 0, !.bo_silent = FALSE]
    /\ UNCHANGED <<dev, lock, irq_depth, fs, others>>

\* iqs5xx.c:919-921
FwAfterWrite ==
    /\ fwt.pc = "fw_after_write"
    /\ fwt' = [fwt EXCEPT !.error = fwt.ret,
                          !.pc = IF fwt.ret # 0 THEN StepFailedLabel(fwt.ret)
                                 ELSE "fw_crc",
                          !.k = 0, !.bl_addr = 0, !.pmap_len = 0]
    /\ obs' = [obs EXCEPT !.wr_off = -1]
    /\ UNCHANGED <<dev, lock, irq_depth, fs, others>>

\* VerifyArgs for a read-back of the whole image: what C19 rules out
VerifyArgsWhole == [bl_addr |-> IQS5XX_CHKSM, pmap_len |-> IQS5XX_PMAP_LEN]

\* iqs5xx.c:927-929: the region iqs5xx_bl_verify is called for
VerifyArgs == [bl_addr |-> IQS5XX_CSTM, pmap_len |-> IQS5XX_CSTM_LEN]

\* iqs5xx.c:923-929
FwCrc ==
    /\ fwt.pc = "fw_crc"
    /\ \E x1 \in Xfer, x2 \in Xfer, answer \in CrcAnswers :
         LET error == iqs5xx_bl_cmd("CRC", x1, x2, answer)
             t == [fwt EXCEPT !.error = error]
             v == VerifyArgs
         IN  /\ obs' = [ObsBus(obs, "CRC", 0, "fw_file_write", error) EXCEPT
                          !.ack = (x1 = "ok" /\ x2 = "ok"
                                     /\ answer = IQS5XX_BL_CRC_PASS)]
             /\ fwt' = IF error # 0 THEN [t EXCEPT !.pc = StepFailedLabel(error)]
                       ELSE Call(EnterBlVerify(t, v.bl_addr, v.pmap_len),
                                 "bv_check", "fw_after_verify")
    /\ UNCHANGED <<dev, lock, irq_depth, fs, others>>

\* iqs5xx.c:927-931
FwAfterVerify ==
    /\ fwt.pc = "fw_after_verify"
    /\ fwt' = [fwt EXCEPT !.error = fwt.ret,
                          !.pc = IF fwt.ret # 0 THEN StepFailedLabel(fwt.ret)
                                 ELSE "fw_exec",
                          !.k = 0, !.bl_addr = 0, !.pmap_len = 0]
    /\ obs' = [obs EXCEPT !.verr = -1]
    /\ UNCHANGED <<dev, lock, irq_depth, fs, others>>

\* iqs5xx.c:933
FwExec ==
    /\ fwt.pc = "fw_exec"
    /\ \E x1 \in Xfer :
         LET error == iqs5xx_bl_cmd("EXEC", x1, "ok", 0)
         IN  /\ obs' = [ObsBus(obs, "EXEC", 0, "fw_file_write", error) EXCEPT
                           !.n_exec = obs.n_exec + 1]
             /\ fwt' = [fwt EXCEPT !.error = error, !.pc = "fw_err_reset"]
    /\ UNCHANGED <<dev, lock, irq_depth, fs, others>>

\* ErrResetNeeded for a reset pulse on every path: what C13 rules out
ErrResetAlways(error) == TRUE

\* iqs5xx.c:936: `if (error)` at err_reset
ErrResetNeeded(error) == error # 0

\* iqs5xx.c:935-941: the reset pulse after a failed step, then identification,
\* whose result will replace error
FwErrReset ==
    /\ fwt.pc = "fw_err_reset"
    /\ obs' = [(IF ErrResetNeeded(fwt.error) THEN ObsReset(obs) ELSE obs) EXCEPT
                 !.step_failed = (fwt.error # 0),
                 !.tail_rst = IF ErrResetNeeded(fwt.error) THEN 1 ELSE 0,
                 !.ack = FALSE,
                 !.n_init = obs.n_init + 1]
    /\ fwt' = Call([fwt EXCEPT !.error = 0], "di_read", "fw_after_init")
    /\ UNCHANGED <<dev, lock, irq_depth, fs, others>>

\* FwFinalError without the test of the mode: what C2 rules out
FwFinalErrorKeep(ret, status) == ret

\* iqs5xx.c:941-943: the result of identification replaces error
FwFinalError(ret, status) ==
    IF ret = 0 /\ status = IQS5XX_BL_STATUS_RESET THEN -EINVAL ELSE ret

FwAfterInit ==
    /\ fwt.pc = "fw_after_init"
    /\ fwt' = [fwt EXCEPT !.error = FwFinalError(fwt.ret, bl_status),
                          !.pc = "fw_enable_irq"]
    /\ obs' = [obs EXCEPT !.bo_resets = 0, !.bo_probes = 0, !.bo_all_wrong = FALSE,
                          !.bo_since = 0, !.bo_silent = FALSE,
                          !.id_case = "none", !.ack = FALSE, !.id_byte = 0,
                          !.wrs = <<>>]
    /\ UNCHANGED <<dev, lock, irq_depth, fs, others>>

\* iqs5xx.c:945
FwEnableIrq ==
    /\ fwt.pc = "fw_enable_irq"
    /\ irq_depth' = irq_depth - 1
    /\ fwt' = [fwt EXCEPT !.pc = "fw_unlock"]
    /\ obs' = [obs EXCEPT !.n_en = obs.n_en + 1]
    /\ UNCHANGED <<dev, lock, fs, others>>

\* iqs5xx.c:947-952: mutex_unlock, kfree, return error
FwUnlock ==
    /\ fwt.pc = "fw_unlock"
    /\ lock' = "free"
    /\ fwt' = Return([fwt EXCEPT !.pmap = ZeroPmap, !.error = 0], fwt.error)
    /\ UNCHANGED <<dev, irq_depth, fs, obs, others>>

(***************************************************************************)
(* fw_file_store (iqs5xx.c:955-996)                                        *)
(***************************************************************************)
\* the lengths user space may write, with or without a final line feed
StoreCounts == {0, 1, IQS5XX_FW_FILE_LEN, IQS5XX_FW_FILE_LEN + 1, IQS5XX_FW_FILE_LEN + 2}

\* iqs5xx.c:960-977
FwFileStore ==
    /\ fwt.pc = "idle"
    /\ \E count \in StoreCounts, nl \in BOOLEAN :
         LET len == IF count > 0 /\ nl THEN count - 1 ELSE count
             t == [fwt EXCEPT !.input_reg = (input = "NULL")]
         IN  fwt' = IF count = 0 THEN [t EXCEPT !.pc = "store_done", !.ret = -EINVAL]
                    ELSE IF len > IQS5XX_FW_FILE_LEN
                    THEN [t EXCEPT !.pc = "store_done", !.ret = -ENAMETOOLONG]
                    ELSE Call(t, "fw_entry", "store_after_write")
    /\ UNCHANGED <<dev, lock, irq_depth, fs, obs, others>>

\* iqs5xx.c:978-995: a positive result stands for `count`
StoreAfterWrite ==
    /\ fwt.pc = "store_after_write"
    /\ \E reg_ok \in BOOLEAN :
         IF fwt.ret # 0
         THEN /\ fwt' = [fwt EXCEPT !.pc = "store_done"]
              /\ registered' = registered
         ELSE IF fwt.input_reg /\ ~reg_ok
         THEN /\ fwt' = [fwt EXCEPT !.pc = "store_done", !.ret = -ENOMEM]
              /\ registered' = registered
         ELSE /\ fwt' = [fwt EXCEPT !.pc = "store_done", !.ret = 1]
              /\ registered' = IF fwt.input_reg THEN registered + 1 ELSE registered
    /\ UNCHANGED <<bl_status, input, irq_requested, lock, irq_depth, fs, obs, others>>

\* the request is over: back to waiting for the next one
StoreDone ==
    /\ fwt.pc = "store_done"
    /\ fwt' = [fwt EXCEPT !.pc = "idle", !.ret = 0, !.input_reg = FALSE]
    /\ obs' = ObsInit
    /\ UNCHANGED <<dev, lock, irq_depth, fs, others>>

(***************************************************************************)
(* iqs5xx_probe (iqs5xx.c:1049-1102)                                       *)
(***************************************************************************)
\* iqs5xx.c:1055-1075
ProbeStart ==
    /\ fwt.pc = "probe"
    /\ \/ /\ fwt' = [fwt EXCEPT !.pc = "unbound", !.ret = -ENOMEM]
          /\ obs' = obs
       \/ /\ fwt' = Call(fwt, "di_read", "probe_after_init")
          /\ obs' = ObsReset(obs)
    /\ UNCHANGED <<dev, lock, irq_depth, fs, others>>

\* iqs5xx.c:1076-1101
ProbeAfterInit ==
    /\ fwt.pc = "probe_after_init"
    /\ \E step \in {"irq_fail", "group_fail", "register_fail", "ok"} :
         IF fwt.ret # 0 \/ step \in {"irq_fail", "group_fail"}
            \/ (step = "register_fail" /\ input # "NULL")
         THEN /\ fwt' = [fwt EXCEPT !.pc = "unbound",
                                    !.ret = IF fwt.ret # 0 THEN fwt.ret ELSE -ENOMEM]
              /\ UNCHANGED <<irq_requested, registered>>
         ELSE /\ fwt' = [fwt EXCEPT !.pc = "idle", !.ret = 0]
              /\ irq_requested' = TRUE
              /\ registered' = IF input # "NULL" THEN registered + 1 ELSE registered
    /\ obs' = ObsInit
    /\ UNCHANGED <<bl_status, input, lock, irq_depth, fs, others>>


(***************************************************************************)
(* iqs5xx_irq (iqs5xx.c:702-752), the threaded handler of client->irq.     *)
(* It runs only once the interrupt is requested and while it is enabled.   *)
(***************************************************************************)
\* input is the handler's local copy of iqs5xx->input (iqs5xx.c:707)
IrqtInit == [pc |-> "idle", tries |-> 0, null_report |-> FALSE, input |-> "NULL"]

\* IrqIgnored for a handler without the precaution: what C26 rules out
IrqIgnoredNever(status) == FALSE

\* iqs5xx.c:715-716: the handler returns IRQ_NONE at once
IrqIgnored(status) == status = IQS5XX_BL_STATUS_RESET

\* iqs5xx.c:710-716
IrqEntry ==
    /\ irqt.pc = "idle"
    /\ irq_requested
    /\ irq_depth = 0
    /\ irqt' = IF IrqIgnored(bl_status) THEN irqt
               ELSE [irqt EXCEPT !.pc = "irq_read", !.input = input]
    /\ UNCHANGED <<dev, lock, irq_depth, fs, fwt, obs, pmt>>

\* iqs5xx.c:718-738: the touch block is read and reported
IrqRead ==
    /\ irqt.pc = "irq_read"
    /\ \E x \in Xfer :
         LET b == read_burst(irqt.tries, x)
         IN  irqt' = IF ~b.done THEN [irqt EXCEPT !.tries = b.i]
                     ELSE IF b.ret # 0
                     THEN [irqt EXCEPT !.pc = "idle", !.tries = 0, !.input = "NULL"]
                     ELSE [irqt EXCEPT !.pc = "irq_end_comm", !.tries = 0,
                                       !.null_report = irqt.null_report
                                                         \/ irqt.input = "NULL"]
    /\ UNCHANGED <<dev, lock, irq_depth, fs, fwt, obs, pmt>>

\* iqs5xx.c:740-751
IrqEndComm ==
    /\ irqt.pc = "irq_end_comm"
    /\ \E x \in Xfer :
         LET b == write_burst(1, irqt.tries, x)
         IN  irqt' = IF ~b.done THEN [irqt EXCEPT !.tries = b.i]
                     ELSE [irqt EXCEPT !.pc = "idle", !.tries = 0, !.input = "NULL"]
    /\ UNCHANGED <<dev, lock, irq_depth, fs, fwt, obs, pmt>>

(***************************************************************************)
(* iqs5xx_set_state (iqs5xx.c:436-465), called by iqs5xx_open/close and by *)
(* suspend/resume, all of which need the registered input device.          *)
(***************************************************************************)
PmtInit == [pc |-> "idle", state |-> 0, tries |-> 0, error1 |-> 0, error2 |-> 0,
            reset_write |-> FALSE]

\* iqs5xx.c:441-442
PmSetState ==
    /\ pmt.pc = "idle"
    /\ registered > 0
    /\ \E state \in {IQS5XX_RESUME, IQS5XX_SUSPEND} :
         pmt' = IF bl_status = IQS5XX_BL_STATUS_RESET THEN pmt
                ELSE [pmt EXCEPT !.pc = "pm_lock", !.state = state]
    /\ UNCHANGED <<dev, lock, irq_depth, fs, fwt, obs, irqt>>

\* iqs5xx.c:444
PmLock ==
    /\ pmt.pc = "pm_lock"
    /\ lock = "free"
    /\ lock' = "pm"
    /\ pmt' = [pmt EXCEPT !.pc = "pm_disable_irq"]
    /\ UNCHANGED <<dev, irq_depth, fs, fwt, obs, irqt>>

\* iqs5xx.c:451
PmDisableIrq ==
    /\ pmt.pc = "pm_disable_irq"
    /\ DisableIrqReturns(irqt.pc)
    /\ irq_depth' = irq_depth + 1
    /\ pmt' = [pmt EXCEPT !.pc = "pm_write_state"]
    /\ UNCHANGED <<dev, lock, fs, fwt, obs, irqt>>

\* iqs5xx.c:453
PmWriteState ==
    /\ pmt.pc = "pm_write_state"
    /\ \E x \in Xfer :
         LET b == write_burst(1, pmt.tries, x)
             t == [pmt EXCEPT !.tries = b.i,
                              !.reset_write = pmt.reset_write
                                                \/ bl_status = IQS5XX_BL_STATUS_RESET]
         IN  pmt' = IF ~b.done THEN t
                    ELSE [t EXCEPT !.pc = "pm_end_comm", !.error1 = b.ret]
    /\ UNCHANGED <<dev, lock, irq_depth, fs, fwt, obs, irqt>>

\* iqs5xx.c:454-456
PmEndComm ==
    /\ pmt.pc = "pm_end_comm"
    /\ \E x \in Xfer :
         LET b == write_burst(1, pmt.tries, x)
             t == [pmt EXCEPT !.tries = b.i,
                              !.reset_write = pmt.reset_write
                                                \/ bl_status = IQS5XX_BL_STATUS_RESET]
         IN  pmt' = IF ~b.done THEN t
                    ELSE [t EXCEPT !.pc = "pm_enable_irq", !.error2 = b.ret]
    /\ UNCHANGED <<dev, lock, irq_depth, fs, fwt, obs, irqt>>

\* iqs5xx.c:457
PmEnableIrq ==
    /\ pmt.pc = "pm_enable_irq"
    /\ irq_depth' = irq_depth - 1
    /\ pmt' = [pmt EXCEPT !.pc = "pm_unlock"]
    /\ UNCHANGED <<dev, lock, fs, fwt, obs, irqt>>

\* iqs5xx.c:459-464
PmUnlock ==
    /\ pmt.pc = "pm_unlock"
    /\ lock' = "free"
    /\ pmt' = [PmtInit EXCEPT !.reset_write = pmt.reset_write]
    /\ UNCHANGED <<dev, irq_depth, fs, fwt, obs, irqt>>

(***************************************************************************)
(* The driver: probe, then firmware-update requests, with the interrupt    *)
(* handler and the power-state changes alongside                           *)
(***************************************************************************)
Init ==
    /\ bl_status = IQS5XX_BL_STATUS_RESET
    /\ input = "NULL"
    /\ registered = 0
    /\ irq_requested = FALSE
    /\ lock = "free"
    /\ irq_depth = 0
    /\ fs = DriverInputs
    /\ fwt = FwtInit
    /\ obs = ObsInit
    /\ irqt = IrqtInit
    /\ pmt = PmtInit

Next ==
    \/ ProbeStart \/ ProbeAfterInit
    \/ FwFileStore \/ StoreAfterWrite \/ StoreDone
    \/ FwWriteEntry \/ FwRequestFirmware \/ FwParseRecord \/ FwAfterParse
    \/ FwLock \/ FwDisableIrq \/ FwSetReset \/ FwProbe \/ FwAfterOpen
    \/ FwAfterWrite \/ FwCrc \/ FwAfterVerify \/ FwExec \/ FwErrReset
    \/ FwAfterInit \/ FwEnableIrq \/ FwUnlock
    \/ BlOpenReset \/ BlOpenProbe
    \/ BlWriteCheck \/ BlWriteBlock \/ BlVerifyCheck \/ BlVerifyBlock
    \/ DevInitRead \/ AxisAlloc \/ AxisRx \/ AxisTx \/ AxisCfgRead \/ AxisCfgWrite
    \/ AxisMaxX \/ AxisMaxY \/ AxisWriteX \/ AxisWriteY
    \/ DevInitCfg0Read \/ DevInitCfg0Write \/ DevInitCfg1Write \/ DevInitEndComm
    \/ IrqEntry \/ IrqRead \/ IrqEndComm
    \/ PmSetState \/ PmLock \/ PmDisableIrq \/ PmWriteState \/ PmEndComm
    \/ PmEnableIrq \/ PmUnlock

Spec == Init /\ [][Next]_vars


(***************************************************************************)
(* The parser alone: iqs5xx_fw_file_parse as iqs5xx_fw_file_write calls it *)
(* on a device in bootloader-available mode, over every firmware source of *)
(* at most MaxRecs catalogue items                                         *)
(***************************************************************************)
InitParse ==
    /\ bl_status = IQS5XX_BL_STATUS_AVAIL
    /\ input = "alloc"
    /\ registered = 1
    /\ irq_requested = TRUE
    /\ lock = "free"
    /\ irq_depth = 0
    /\ \E src \in ParseInputs : fs = {src}
    /\ fwt = [FwtInit EXCEPT !.pc = "fw_request", !.stack = <<"store_after_write">>]
    /\ obs = [ObsInit EXCEPT !.in_write = TRUE, !.bl0 = IQS5XX_BL_STATUS_AVAIL]
    /\ irqt = IrqtInit
    /\ pmt = PmtInit

NextParse == FwRequestFirmware \/ FwParseRecord \/ FwAfterParse

SpecParse == InitParse /\ [][NextParse]_vars

(***************************************************************************)
(* iqs5xx_bl_write alone, called from the flash sequence's position (lock  *)
(* held, interrupt disabled, probe answered) with arguments of the         *)
(* caller's choice                                                         *)
(***************************************************************************)
BlWriteAddrs ==
    {IQS5XX_CHKSM, IQS5XX_CSTM, IQS5XX_PMAP_END + 1 - IQS5XX_BL_BLK_LEN_MAX,
     IQS5XX_PMAP_END + 2 - IQS5XX_BL_BLK_LEN_MAX}

BlWriteLens ==
    {0, IQS5XX_BL_BLK_LEN_MAX - 1, IQS5XX_BL_BLK_LEN_MAX, 2 * IQS5XX_BL_BLK_LEN_MAX,
     IQS5XX_CSTM_LEN, IQS5XX_PMAP_LEN}

InitBlWrite ==
    /\ bl_status = IQS5XX_BL_STATUS_RESET
    /\ input = "alloc"
    /\ registered = 1
    /\ irq_requested = TRUE
    /\ lock = "fw"
    /\ irq_depth = 1
    /\ fs = DriverInputs
    /\ \E a \in BlWriteAddrs, l \in BlWriteLens :
         fwt = EnterBlWrite([FwtInit EXCEPT
                               !.stack = <<"fw_after_write", "store_after_write">>],
                            a, l)
    /\ obs = [ObsInit EXCEPT
                !.in_write = TRUE, !.parsed = "ok", !.locked = TRUE, !.n_dis = 1,
                !.bus = TRUE, !.bl0 = IQS5XX_BL_STATUS_AVAIL,
                !.last = [op |-> "VER", addr |-> 0, site |-> "fw_file_write",
                          ret |-> 0]]
    /\ irqt = IrqtInit
    /\ pmt = PmtInit

NextBlWrite == BlWriteCheck \/ BlWriteBlock \/ FwAfterWrite

SpecBlWrite == InitBlWrite /\ [][NextBlWrite]_vars

(***************************************************************************)
(* Properties                                                              *)
(***************************************************************************)
\* iqs5xx_fw_file_write has just returned to fw_file_store; fwt.ret is its result
WriteReturned == fwt.pc = "store_after_write" /\ obs.in_write

\* C1: when a step of the flash sequence (open, block write, CRC, verify,
\* Execute) has failed, iqs5xx_fw_file_write returns a failure, whatever the
\* identification that follows reports.
C1_StepFailureReturned ==
    (WriteReturned /\ obs.step_failed) => fwt.ret # 0

\* C2: a call of iqs5xx_fw_file_write that got past parsing and returns
\* success never leaves bl_status as reset.
C2_SuccessNeverInReset ==
    (WriteReturned /\ obs.parsed = "ok" /\ fwt.ret = 0)
        => bl_status \in {IQS5XX_BL_STATUS_AVAIL, IQS5XX_BL_STATUS_NONE}

\* a flash went through and the device came back with a bootloader
C2_Witness ==
    /\ WriteReturned /\ obs.parsed = "ok" /\ fwt.ret = 0
    /\ obs.last.site = "dev_init" /\ ~obs.step_failed
    /\ bl_status = IQS5XX_BL_STATUS_AVAIL

\* C3: once parsing has failed, the call has made and makes no bus
\* transaction and no reset pulse, never takes the lock or disables the
\* interrupt, leaves bl_status as it found it, and returns a failure.
C3_ParseFailureTouchesNothing ==
    (obs.in_write /\ obs.parsed = "fail")
        => /\ ~obs.bus /\ ~obs.rst /\ ~obs.locked /\ obs.n_dis = 0
           /\ lock # "fw"
           /\ bl_status = obs.bl0
           /\ fwt.pc \in {"store_after_write", "store_done"}
           /\ fwt.pc = "store_after_write" => fwt.ret # 0

\* a source was loaded, its parse failed, and the call is back with the
\* device still in bootloader-available mode
C3_Witness ==
    /\ WriteReturned /\ obs.parsed = "fail" /\ fwt.ret = -EINVAL
    /\ bl_status = IQS5XX_BL_STATUS_AVAIL

\* C4: a decoded record whose recorded checksum differs from the recomputed
\* one fails the parse when its address is outside 0xBE00..0xBFFF, and is
\* accepted when its address is inside and it is otherwise valid.
C4_ChecksumLeniency ==
    LET r == fwt.rec
        decoded == r.why \in {"ok", "chksm", "addr", "type"}
        in_cstm == r.rec_addr \in IQS5XX_CSTM..IQS5XX_PMAP_END
        valid == r.rec_type \in {IQS5XX_REC_TYPE_DATA, IQS5XX_REC_TYPE_EOF}
    IN  (decoded /\ ~r.chk_ok)
            => IF in_cstm THEN (valid => r.error = 0) ELSE r.error # 0

\* the data records of the catalogue that are right in every respect
ValidData ==
    { DataRec(IQS5XX_CHKSM, <<17>>, 0), DataRec(IQS5XX_CHKSM, <<34, 51>>, 0),
      Render(HexLower, IQS5XX_APP + 10, IQS5XX_REC_TYPE_DATA, <<171>>, 0) }

OnlyData(src) == \A n \in 1..Len(src) : src[n] \in ValidData

\* C5: the parser fails on every source that holds valid data records only
\* (the empty one included), succeeds only with an end-of-file record as the
\* last record read, reads no record after an end-of-file record, and on
\* valid data records followed by the end-of-file record succeeds having
\* read just these, whatever follows.
C5_EofEndsParse ==
    /\ fwt.pc = "fw_after_parse"
         => /\ OnlyData(fwt.src) => fwt.ret # 0
            /\ fwt.ret = 0 => /\ fwt.rec.why = "ok"
                              /\ fwt.rec.rec_type = IQS5XX_REC_TYPE_EOF
            /\ \A n \in 1..Len(fwt.src) :
                 (OnlyData(SubSeq(fwt.src, 1, n - 1)) /\ fwt.src[n] = EofRec(65535, 0))
                    => /\ fwt.ret = 0
                       /\ fwt.rec_num = n + 1
                       /\ fwt.pos >= Len(Flatten(SubSeq(fwt.src, 1, n)))
    /\ (fwt.pc = "fw_parse" /\ fwt.rec.why # "none")
         => fwt.rec.error = 0 /\ fwt.rec.rec_type = IQS5XX_REC_TYPE_DATA

\* a data record, the end-of-file record, then one more record: the parser
\* has returned success after two records
C5_Witness ==
    /\ fwt.pc = "fw_after_parse" /\ fwt.ret = 0 /\ fwt.rec_num = 3
    /\ Len(fwt.src) = 3
    /\ fwt.src[1] \in ValidData /\ fwt.src[2] = EofRec(65535, 0)
    /\ fwt.src[3] \in ValidData

\* C6: every bus transaction and reset pulse of a flash is made with the lock
\* held by the flash and the interrupt disabled; when a call that took the
\* lock returns, it has disabled and enabled the interrupt once each and no
\* longer holds the lock.
C6_LockAndIrqBracket ==
    obs.in_write
        => /\ obs.safe
           /\ obs.n_en <= obs.n_dis /\ obs.n_dis <= 1
           /\ (obs.bus \/ obs.rst) => obs.locked
           /\ (WriteReturned /\ obs.locked)
                => obs.n_dis = 1 /\ obs.n_en = 1 /\ lock # "fw"

\* a flash whose step failed has returned its failure through the bracket
C6_Witness ==
    /\ WriteReturned /\ obs.locked /\ obs.step_failed /\ fwt.ret # 0
    /\ obs.bus /\ obs.rst /\ obs.n_en = 1 /\ lock # "fw"

\* the flash, or the power-state change, is between its disable_irq and its
\* enable_irq
FwIrqOff == lock = "fw" /\ fwt.pc \notin {"fw_disable_irq", "fw_unlock"}

PmIrqOff == pmt.pc \in {"pm_write_state", "pm_end_comm", "pm_enable_irq"}

\* C7: while a flash or a power-state change is between its interrupt
\* disable and its interrupt enable, the interrupt handler is not running:
\* neither its touch-block read nor its end-of-communication write is
\* pending.
C7_HandlerOutsideBracket ==
    (FwIrqOff \/ PmIrqOff) => irqt.pc = "idle"

\* the handler is about to write end-of-communication while the flash
\* waits in disable_irq with the lock held
C7_Witness ==
    irqt.pc = "irq_end_comm" /\ fwt.pc = "fw_disable_irq" /\ lock = "fw"

\* C8: the bus transaction that follows a successful first Version probe of
\* a flash is the write of the block at IQS5XX_CHKSM, and no reset pulse has
\* been issued by then.
C8_ProbeSuccessSkipsOpen ==
    [][ ( /\ obs.last.op = "VER" /\ obs.last.site = "fw_file_write"
          /\ obs.last.ret = 0
          /\ obs'.last # obs.last )
        => ( /\ obs'.last.op = "WRITE" /\ obs'.last.site = "bl_write"
             /\ obs'.last.addr = IQS5XX_CHKSM
             /\ ~obs'.rst ) ]_vars

\* the first block has been written with no reset pulse before it
C8_Witness ==
    /\ obs.in_write /\ ~obs.rst
    /\ obs.last.op = "WRITE" /\ obs.last.addr = IQS5XX_CHKSM /\ obs.last.ret = 0
    /\ fwt.pc = "bw_block" /\ fwt.k = IQS5XX_BL_BLK_LEN_MAX

\* iqs5xx_bl_open has just returned; fwt.ret is its result
BlOpenReturned ==
    /\ fwt.pc \in {"fw_after_open", "fw_after_init", "probe_after_init"}
    /\ obs.bo_resets > 0

ExceedsRegion(bl_addr, pmap_len) ==
    /\ pmap_len > 0
    /\ bl_addr + ((pmap_len - 1) \div IQS5XX_BL_BLK_LEN_MAX) * IQS5XX_BL_BLK_LEN_MAX
         + IQS5XX_BL_BLK_LEN_MAX > IQS5XX_PMAP_END + 1

VerifyBlocks == {IQS5XX_CSTM + IQS5XX_BL_BLK_LEN_MAX * k : k \in 0..7}

\* C12: once a block of the customization region has been read back
\* different from the image, no further block is verified, the verification
\* returns an error naming the address of that block, and no Execute command
\* is issued in that flash.
C12_MismatchStopsVerify ==
    (obs.in_write /\ obs.diff)
        => /\ obs.n_exec = 0
           /\ fwt.pc \notin {"bv_check", "bv_block", "fw_exec"}
           /\ fwt.pc = "fw_after_verify"
                => /\ fwt.ret # 0
                   /\ obs.last.op = "READ" /\ obs.last.site = "bl_verify"
                   /\ obs.last.addr \in VerifyBlocks
                   /\ obs.verr = obs.last.addr

\* the read-back of the third block differs in its last byte and the
\* verification has returned
C12_Witness ==
    /\ obs.in_write /\ obs.diff /\ fwt.pc = "fw_after_verify"
    /\ obs.verr = IQS5XX_CSTM + 2 * IQS5XX_BL_BLK_LEN_MAX /\ fwt.ret = -EIO


\* the flash is past its steps 2-6: identification has begun or is over
PastSteps ==
    fwt.pc \in {"fw_after_init", "fw_enable_irq", "fw_unlock", "store_after_write",
                "store_done"}
        \/ (obs.n_init > 0 /\ fwt.pc # "fw_err_reset")

\* C13: in a flash that got past parsing, identification is entered exactly
\* once, after steps 2-6 and before the interrupt is enabled and the lock
\* released; one reset pulse precedes it when a step failed, none when all
\* steps succeeded.
C13_OneIdentification ==
    (obs.in_write /\ obs.locked)
        => /\ obs.n_init <= 1
           /\ PastSteps <=> obs.n_init = 1
           /\ obs.n_init = 1 => obs.tail_rst = (IF obs.step_failed THEN 1 ELSE 0)
           /\ (obs.n_init = 1 /\ ~obs.step_failed) => obs.n_exec = 1
           /\ (obs.n_en > 0 \/ lock # "fw") => obs.n_init = 1

\* identification runs after a failed step and its reset pulse
C13_Witness ==
    /\ obs.in_write /\ obs.locked /\ obs.step_failed
    /\ obs.n_init = 1 /\ obs.tail_rst = 1 /\ obs.n_exec = 0
    /\ fwt.pc = "di_cfg0_wr"


\* C14: iqs5xx_fw_file_write returns -EPERM exactly when bl_status was
\* bootloader-none at the call, and then it has requested and parsed
\* nothing, made no bus transaction and no reset pulse, not taken the lock
\* and left bl_status as it was.
C14_PermissionError ==
    /\ WriteReturned => (fwt.ret = -EPERM <=> obs.bl0 = IQS5XX_BL_STATUS_NONE)
    /\ (obs.in_write /\ obs.bl0 = IQS5XX_BL_STATUS_NONE)
         => /\ fwt.pc \in {"store_after_write", "store_done"}
            /\ obs.parsed = "no" /\ ~obs.bus /\ ~obs.rst /\ ~obs.locked
            /\ obs.n_dis = 0 /\ lock # "fw"
            /\ bl_status = IQS5XX_BL_STATUS_NONE

\* a flash asked of a device without bootloader has returned -EPERM
C14_Witness ==
    /\ WriteReturned /\ obs.bl0 = IQS5XX_BL_STATUS_NONE /\ fwt.ret = -EPERM
    /\ bl_status = IQS5XX_BL_STATUS_NONE


(***************************************************************************)
(* One call of iqs5xx_read_burst or iqs5xx_write_burst alone, with the     *)
(* outcome of every transfer it attempts kept in obs.xs                    *)
(***************************************************************************)
BurstLens == 0..(IQS5XX_WR_BYTES_MAX + 1)

InitBurst ==
    /\ bl_status = IQS5XX_BL_STATUS_AVAIL
    /\ input = "alloc"
    /\ registered = 1
    /\ irq_requested = TRUE
    /\ lock = "free"
    /\ irq_depth = 0
    /\ fs = DriverInputs
    /\ \E pc \in {"rb_loop", "wb_loop"}, len \in BurstLens :
         fwt = [FwtInit EXCEPT !.pc = pc, !.val = len]
    /\ obs = [xs |-> <<>>]
    /\ irqt = IrqtInit
    /\ pmt = PmtInit

\* iqs5xx.c:154-168: one pass of the loop of iqs5xx_read_burst
BurstRead ==
    /\ fwt.pc = "rb_loop"
    /\ \E x \in Xfer :
         LET b == read_burst(fwt.tries, x)
         IN  /\ fwt' = IF b.done
                       THEN [fwt EXCEPT !.pc = "burst_done", !.ret = b.ret, !.tries = 0]
                       ELSE [fwt EXCEPT !.tries = b.i]
             /\ obs' = [obs EXCEPT !.xs = IF b.n > 0 THEN Append(@, x) ELSE @]
    /\ UNCHANGED <<dev, lock, irq_depth, fs, others>>

\* iqs5xx.c:197-222: the length check, or one pass of the loop, of
\* iqs5xx_write_burst
BurstWrite ==
    /\ fwt.pc = "wb_loop"
    /\ \E x \in Xfer :
         LET b == write_burst(fwt.val, fwt.tries, x)
         IN  /\ fwt' = IF b.done
                       THEN [fwt EXCEPT !.pc = "burst_done", !.ret = b.ret, !.tries = 0]
                       ELSE [fwt EXCEPT !.tries = b.i]
             /\ obs' = [obs EXCEPT !.xs = IF b.n > 0 THEN Append(@, x) ELSE @]
    /\ UNCHANGED <<dev, lock, irq_depth, fs, others>>

NextBurst == BurstRead \/ BurstWrite

SpecBurst == InitBurst /\ [][NextBurst]_vars

\* C15: a call of the read or write primitive attempts at most 10
\* transfers, attempts none after a complete one and returns 0 for it, and
\* when all 10 attempts failed, short transfers included, returns a
\* negative error.
C15_BurstRetries ==
    LET n == Len(obs.xs)
    IN  /\ n <= IQS5XX_NUM_RETRIES
        /\ \A k \in 1..(n - 1) : obs.xs[k] # "ok"
        /\ fwt.pc # "burst_done" => \A k \in 1..n : obs.xs[k] # "ok"
        /\ fwt.pc = "burst_done"
             => /\ fwt.ret <= 0
                /\ fwt.ret = 0 <=> (n > 0 /\ obs.xs[n] = "ok")
                /\ (n > 0 /\ fwt.ret < 0) => n = IQS5XX_NUM_RETRIES

\* ten attempts of a read ended short or in error and the call has returned
\* -EIO for the short last one
C15_Witness ==
    /\ fwt.pc = "burst_done" /\ Len(obs.xs) = IQS5XX_NUM_RETRIES
    /\ obs.xs[IQS5XX_NUM_RETRIES] = "short" /\ obs.xs[1] = "err"
    /\ fwt.ret = -EIO


\* identification has returned to its caller
DevInitReturned == fwt.pc \in {"fw_after_init", "probe_after_init"}

\* C16: identification runs the bootloader-open sequence after a failed
\* identity read, for project A000 and for a major version below 2, and
\* returns an error without opening for an unrecognized product number,
\* another project number than B000 and an unknown bootloader status, the
\* checks taken in this order; in all of these outcomes it writes no
\* register and leaves bl_status as it was.
C16_IdentificationOrder ==
    LET c == obs.id_case
    IN  /\ c \in {"read_fail", "a000", "major"}
             => \/ fwt.pc \in {"bo_reset", "bo_probe"}
                \/ DevInitReturned /\ obs.bo_resets > 0
        /\ c \in {"prod", "proj", "bl"}
             => /\ DevInitReturned
                /\ fwt.ret = -EINVAL
                /\ obs.bo_resets = 0
                /\ obs.last.site = "dev_init"
        /\ c \notin {"none", "pass"}
             => /\ obs.last.op \in {"RD", "VER"}
                /\ obs.last.op = "RD" => obs.last.addr = IQS5XX_PROD_NUM
                /\ bl_status = IQS5XX_BL_STATUS_RESET

\* an identity of major version 1 has sent identification through the
\* bootloader-open sequence, whose result it returned
C16_Witness ==
    /\ obs.id_case = "major" /\ DevInitReturned
    /\ obs.bo_resets > 0 /\ fwt.ret = 0


\* the data records of the catalogue: text, record address and payload
DataTable ==
    { [text |-> DataRec(IQS5XX_CHKSM, <<17>>, 0), addr |-> IQS5XX_CHKSM,
       data |-> <<17>>],
      [text |-> DataRec(IQS5XX_CHKSM, <<34, 51>>, 0), addr |-> IQS5XX_CHKSM,
       data |-> <<34, 51>>],
      [text |-> DataRec(IQS5XX_APP, <<68>>, 1), addr |-> IQS5XX_APP, data |-> <<68>>],
      [text |-> DataRec(IQS5XX_CSTM, <<119>>, 1), addr |-> IQS5XX_CSTM,
       data |-> <<119>>],
      [text |-> DataRec(IQS5XX_PMAP_END, <<153, 170>>, 0), addr |-> IQS5XX_PMAP_END,
       data |-> <<153, 170>>],
      [text |-> DataRec(IQS5XX_PMAP_END + 1, <<1>>, 1), addr |-> IQS5XX_PMAP_END + 1,
       data |-> <<1>>],
      [text |-> Render(HexLower, IQS5XX_APP + 10, IQS5XX_REC_TYPE_DATA, <<171>>, 0),
       addr |-> IQS5XX_APP + 10, data |-> <<171>>] }

IsEof(item) == item \in {EofRec(65535, 0), EofRec(65535, 1), EofRec(0, 1)}

\* the items of src before its first end-of-file record
BeforeEof(src) ==
    {k \in 1..Len(src) : \A m \in 1..k : ~IsEof(src[m])}

\* the data records among them that cover offset off of the image
Writers(src, off) ==
    {k \in BeforeEof(src) :
       \E d \in DataTable : /\ d.text = src[k]
                            /\ off >= d.addr - IQS5XX_CHKSM
                            /\ off < d.addr - IQS5XX_CHKSM + Len(d.data)}

\* byte off of the image the records of src describe: the payload byte of
\* the last record that covers it, 0 when none does
ImageByte(src, off) ==
    LET w == Writers(src, off)
    IN  IF w = {} THEN 0
        ELSE LET k == CHOOSE m \in w : \A n \in w : n <= m
                 d == CHOOSE e \in DataTable : e.text = src[k]
             IN  d.data[off - (d.addr - IQS5XX_CHKSM) + 1]

\* the offsets of the image a catalogue record can cover
Covered ==
    {off \in 0..(IQS5XX_PMAP_LEN - 1) :
       \E d \in DataTable : /\ off >= d.addr - IQS5XX_CHKSM
                            /\ off < d.addr - IQS5XX_CHKSM + Len(d.data)}

\* C17: for every input the parser accepts, the image is the zero-filled
\* buffer of IQS5XX_PMAP_LEN bytes overlaid, in record order, with the
\* payload of the data records before the first end-of-file record, each at
\* offset (record address - IQS5XX_CHKSM); what follows that record has no
\* effect, and the image is this function of the input alone.
C17_ImageIsOverlay ==
    (fwt.pc = "fw_after_parse" /\ fwt.ret = 0)
       => /\ BeforeEof(fwt.src) # 1..Len(fwt.src)
          /\ DOMAIN fwt.pmap \subseteq Covered
          /\ \A off \in Covered : PmapByte(fwt.pmap, off) = ImageByte(fwt.src, off)

\* two data records at the same address, then the end-of-file record: the
\* image holds the second record's byte over the first's
C17_Witness ==
    /\ fwt.pc = "fw_after_parse" /\ fwt.ret = 0
    /\ fwt.src = <<DataRec(IQS5XX_CHKSM, <<34, 51>>, 0),
                   DataRec(IQS5XX_CHKSM, <<17>>, 0), EofRec(65535, 0)>>
    /\ PmapByte(fwt.pmap, 0) = 17 /\ PmapByte(fwt.pmap, 1) = 51


\* the address of the last block of the image
LastBlock == IQS5XX_CHKSM + IQS5XX_PMAP_LEN - IQS5XX_BL_BLK_LEN_MAX

\* C18: the block-write step of a flash sends the first block at
\* IQS5XX_CHKSM and every further block 64 bytes above the block before it,
\* and only after that block's transfer succeeded; a block carries the image
\* bytes at (its address - IQS5XX_CHKSM); a failed transfer ends the step
\* with its error, and the step returns 0 only behind the block at
\* IQS5XX_CHKSM + 64 * 240.
C18_BlocksAscending ==
    [][ /\ (obs'.last.site = "bl_write" /\ obs'.last # obs.last)
           => /\ obs'.last.op = "WRITE"
              /\ IF obs.last.site = "bl_write"
                 THEN /\ obs.last.ret = 0
                      /\ obs'.last.addr = obs.last.addr + IQS5XX_BL_BLK_LEN_MAX
                 ELSE obs'.last.addr = IQS5XX_CHKSM
              /\ obs'.last.addr <= LastBlock
              /\ obs'.wr_off = obs'.last.addr - IQS5XX_CHKSM
              /\ obs'.last.ret <= 0
              /\ obs'.last.ret # 0
                   => fwt'.pc = "fw_after_write" /\ fwt'.ret = obs'.last.ret
        /\ (fwt.pc = "bw_block" /\ fwt'.pc = "fw_after_write" /\ fwt'.ret = 0)
           => /\ obs' = obs
              /\ obs.last = [op |-> "WRITE", addr |-> LastBlock, site |-> "bl_write",
                             ret |-> 0]
        /\ (fwt.pc = "fw_after_write" /\ fwt.ret # 0)
           => fwt'.pc = "fw_err_reset" /\ fwt'.error = fwt.ret /\ obs'.last = obs.last
      ]_vars

\* all 241 blocks are sent and the step has returned 0
C18_Witness ==
    /\ fwt.pc = "fw_after_write" /\ fwt.ret = 0
    /\ obs.last.site = "bl_write" /\ obs.last.addr = LastBlock
    /\ obs.wr_off = IQS5XX_PMAP_LEN - IQS5XX_BL_BLK_LEN_MAX


\* C19: a flash issues Execute at most once, and only right after the
\* successful read-back, equal to the image, of the last of the 8 blocks of
\* the customization region; the read-backs start at IQS5XX_CSTM right after
\* a CRC command answered with pass and ascend block by block, the CRC
\* command follows the successful write of block 240, and the first block is
\* written right after a Version probe answered with the bootloader ID.
C19_ExecuteLast ==
    [][ /\ obs'.n_exec <= 1
        /\ obs'.n_exec > obs.n_exec
           => /\ obs.n_exec = 0
              /\ obs'.last.op = "EXEC"
              /\ obs.last = [op |-> "READ",
                             addr |-> IQS5XX_CSTM + IQS5XX_CSTM_LEN
                                        - IQS5XX_BL_BLK_LEN_MAX,
                             site |-> "bl_verify", ret |-> 0]
              /\ ~obs.diff
        /\ (obs'.last.op = "EXEC") => obs'.n_exec = 1
        /\ (obs'.last.site = "bl_verify" /\ obs'.last # obs.last)
           => /\ obs'.last.op = "READ"
              /\ obs'.last.addr \in VerifyBlocks
              /\ IF obs.last.site = "bl_verify"
                 THEN /\ obs.last.ret = 0 /\ ~obs.diff
                      /\ obs'.last.addr = obs.last.addr + IQS5XX_BL_BLK_LEN_MAX
                 ELSE /\ obs.last = [op |-> "CRC", addr |-> 0,
                                     site |-> "fw_file_write", ret |-> 0]
                      /\ obs.ack
                      /\ obs'.last.addr = IQS5XX_CSTM
        /\ (obs'.last.op = "CRC" /\ obs.last.op # "CRC")
           => obs.last = [op |-> "WRITE", addr |-> LastBlock, site |-> "bl_write",
                          ret |-> 0]
        /\ (obs'.last.site = "bl_write" /\ obs'.last # obs.last)
           => IF obs.last.site = "bl_write"
              THEN /\ obs.last.ret = 0
                   /\ obs'.last.addr = obs.last.addr + IQS5XX_BL_BLK_LEN_MAX
              ELSE /\ obs.last.op = "VER" /\ obs.last.ret = 0 /\ obs.ack
                   /\ obs'.last.addr = IQS5XX_CHKSM
      ]_vars

\* Execute has been issued, after a probe that only the open sequence got
\* answered
C19_Witness ==
    /\ obs.in_write /\ obs.n_exec = 1 /\ obs.last.op = "EXEC" /\ obs.last.ret = 0
    /\ obs.rst /\ ~obs.diff


\* the registers identification writes, in the order it writes them
CfgWrites ==
    { <<IQS5XX_XY_CFG0, IQS5XX_X_RES, IQS5XX_Y_RES, IQS5XX_SYS_CFG0, IQS5XX_SYS_CFG1,
        IQS5XX_END_COMM>>,
      <<IQS5XX_XY_CFG0, IQS5XX_Y_RES, IQS5XX_X_RES, IQS5XX_SYS_CFG0, IQS5XX_SYS_CFG1,
        IQS5XX_END_COMM>> }

\* C20: bl_status is always reset (0x00), bootloader-available (0xA5) or
\* bootloader-none (0xEE); the flash sets it to reset, and the only other
\* change takes it from reset to the bootloader-status byte of the identity
\* just read, which passed every check, in the step in which the write of
\* END_COMM succeeds after the successful writes of the axis configuration,
\* both resolutions, SYS_CFG0 and SYS_CFG1.
C20_StatusValues ==
    [][ /\ bl_status \in {IQS5XX_BL_STATUS_RESET, IQS5XX_BL_STATUS_AVAIL,
                          IQS5XX_BL_STATUS_NONE}
        /\ bl_status' \in {IQS5XX_BL_STATUS_RESET, IQS5XX_BL_STATUS_AVAIL,
                           IQS5XX_BL_STATUS_NONE}
        /\ bl_status' # bl_status
           => \/ fwt.pc = "fw_set_reset" /\ bl_status' = IQS5XX_BL_STATUS_RESET
              \/ /\ bl_status = IQS5XX_BL_STATUS_RESET
                 /\ obs.id_case = "pass"
                 /\ bl_status' = obs.id_byte
                 /\ obs'.wrs \in CfgWrites
                 /\ obs'.last = [op |-> "WR", addr |-> IQS5XX_END_COMM,
                                 site |-> "dev_init", ret |-> 0]
                 /\ fwt'.ret = 0
        /\ (obs.id_case = "pass" /\ obs'.id_case = "none" /\ fwt.ret # 0)
           => bl_status' = IQS5XX_BL_STATUS_RESET
      ]_vars

\* identification within a flash has stored bootloader-none for a device
\* whose identity reports it, after a flash entered with bootloader-available
C20_Witness ==
    /\ obs.in_write /\ obs.bl0 = IQS5XX_BL_STATUS_AVAIL
    /\ fwt.pc = "fw_after_init" /\ fwt.ret = 0
    /\ bl_status = IQS5XX_BL_STATUS_NONE /\ obs.id_byte = IQS5XX_BL_STATUS_NONE
    /\ obs.wrs \in CfgWrites


\* C21: iqs5xx_bl_open pulses reset at most 3 times and probes at most 10
\* times after each pulse; a probe answered with the bootloader ID makes it
\* return 0 with no further pulse or probe; when no probe gets a response
\* it returns a failure after exactly 3 pulses and 30 probes.
C21_OpenBounds ==
    /\ obs.bo_resets <= IQS5XX_BL_ATTEMPTS
    /\ obs.bo_since <= IQS5XX_NUM_RETRIES
    /\ obs.bo_probes <= IQS5XX_BL_ATTEMPTS * IQS5XX_NUM_RETRIES
    /\ fwt.pc \in {"bo_reset", "bo_probe"}
         => /\ ~obs.ack
            /\ obs.bo_probes > 0 => obs.bo_silent
    /\ BlOpenReturned
         => /\ obs.ack <=> fwt.ret = 0
            /\ obs.bo_silent
                 => /\ obs.bo_resets = IQS5XX_BL_ATTEMPTS
                    /\ obs.bo_since = IQS5XX_NUM_RETRIES
                    /\ obs.bo_probes = IQS5XX_BL_ATTEMPTS * IQS5XX_NUM_RETRIES
                    /\ fwt.ret < 0

\* the open sequence has given up on a device that answered none of the 30
\* probes
C21_Witness ==
    /\ BlOpenReturned /\ obs.bo_silent
    /\ obs.bo_resets = IQS5XX_BL_ATTEMPTS
    /\ obs.bo_probes = IQS5XX_BL_ATTEMPTS * IQS5XX_NUM_RETRIES /\ fwt.ret < 0


(***************************************************************************)
(* The decoding of the identity block in iqs5xx_dev_init alone: obs.r are  *)
(* the 7 bytes read from IQS5XX_PROD_NUM, obs.id the identity decoded      *)
(***************************************************************************)
InitDecode ==
    /\ bl_status = IQS5XX_BL_STATUS_RESET
    /\ input = "NULL"
    /\ registered = 0
    /\ irq_requested = FALSE
    /\ lock = "free"
    /\ irq_depth = 0
    /\ fs = DriverInputs
    /\ fwt = [FwtInit EXCEPT !.pc = "di_decode", !.stack = <<"probe_after_init">>]
    /\ \E r0 \in {0, 1, 40, 255}, r1 \in {0, 40}, r2 \in {0, 15}, r3 \in {2, 15},
          r4 \in {0, 2}, r5 \in {1, 165}, r6 \in {7, 238} :
         obs = [r |-> <<r0, r1, r2, r3, r4, r5, r6>>, id |-> DecodeIdDirect(<<0, 0, 0, 0, 0, 0, 0>>)]
    /\ irqt = IrqtInit
    /\ pmt = PmtInit

\* iqs5xx.c:621-622
DevInitDecode ==
    /\ fwt.pc = "di_decode"
    /\ fwt' = [fwt EXCEPT !.pc = "di_decoded"]
    /\ obs' = [obs EXCEPT !.id = DecodeId(obs.r)]
    /\ UNCHANGED <<dev, lock, irq_depth, fs, others>>

NextDecode == DevInitDecode

SpecDecode == InitDecode /\ [][NextDecode]_vars

\* C22: with r0..r6 the bytes read, a nonzero r0 gives product number r0,
\* project number r1:r2, major version r3, minor version r4 and bootloader
\* byte r5, r6 being ignored; r0 = 0 gives product number r0:r1, project
\* number r2:r3, major version r4, minor version r5 and bootloader byte r6.
C22_ZeroPrepend ==
    fwt.pc = "di_decoded"
       => LET r == obs.r
              id == obs.id
          IN  IF r[1] # 0
              THEN /\ id.prod_num = r[1]
                   /\ id.proj_num = r[2] * 256 + r[3]
                   /\ id.major_ver = r[4]
                   /\ id.minor_ver = r[5]
                   /\ id.bl_status = r[6]
              ELSE /\ id.prod_num = r[1] * 256 + r[2]
                   /\ id.proj_num = r[3] * 256 + r[4]
                   /\ id.major_ver = r[5]
                   /\ id.minor_ver = r[6]
                   /\ id.bl_status = r[7]

\* a read that starts with 40 is decoded as product 40 with the bootloader
\* byte taken from r5
C22_Witness ==
    /\ fwt.pc = "di_decoded" /\ obs.r = <<40, 0, 15, 2, 0, 165, 7>>
    /\ obs.id.prod_num = IQS5XX_PROD_NUM_IQS550
    /\ obs.id.proj_num = IQS5XX_PROJ_NUM_B000
    /\ obs.id.bl_status = IQS5XX_BL_STATUS_AVAIL


\* C23: every data record the parser stores has record address + record
\* length <= IQS5XX_PMAP_END + 1, so that its payload lies inside the image
\* buffer; a data record that starts inside the flashable range and extends
\* past IQS5XX_PMAP_END is rejected as an invalid address.
C23_StoresInsideImage ==
    LET r == fwt.rec
        decoded == r.why \in {"ok", "chksm", "addr", "type"}
        starts_inside == r.rec_addr \in IQS5XX_CHKSM..IQS5XX_PMAP_END
        extends_past == r.rec_addr + r.rec_len > IQS5XX_PMAP_END + 1
    IN  /\ r.stored => ~extends_past
        /\ ( /\ decoded /\ r.rec_type = IQS5XX_REC_TYPE_DATA
             /\ starts_inside /\ extends_past )
              => r.error = -EINVAL /\ r.why \in {"addr", "chksm"}
        /\ \A off \in DOMAIN fwt.pmap : off \in 0..(IQS5XX_PMAP_LEN - 1)


\* C24: iqs5xx_set_state makes its writes of SYS_CTRL1 and END_COMM only
\* while bl_status is not reset, under every interleaving with a flash.
C24_SetStateSeesOneMode ==
    /\ pmt.pc \in {"pm_write_state", "pm_end_comm"}
         => bl_status # IQS5XX_BL_STATUS_RESET
    /\ ~pmt.reset_write


\* C25: whenever a firmware-update request returns success, the input
\* device is registered, and has been registered exactly once since probe.
C25_SuccessMeansRegistered ==
    (fwt.pc = "store_done" /\ fwt.ret > 0)
        => /\ input # "NULL"
           /\ registered = 1


\* C26: whenever bl_status is not reset the input device is allocated; the
\* touch-sample handler is past its test of bl_status only while bl_status
\* is not reset, holds an allocated input device then, and has never
\* reported to an unallocated one.
C26_ModeImpliesInput ==
    /\ bl_status # IQS5XX_BL_STATUS_RESET => input # "NULL"
    /\ irqt.pc # "idle"
         => /\ bl_status # IQS5XX_BL_STATUS_RESET
            /\ irqt.input # "NULL"
    /\ ~irqt.null_report

\* the handler has read and reported a touch sample of a device whose flash
\* request is waiting for the handler to finish
C26_Witness ==
    /\ irqt.pc = "irq_end_comm" /\ irqt.input = "alloc"
    /\ bl_status = IQS5XX_BL_STATUS_AVAIL
    /\ fwt.pc = "fw_disable_irq"

=============================================================================
